--------------------------- MODULE KconfigProgram ---------------------------
(***************************************************************************)
(* main of a front end: conf_parse, which makes the menus final and        *)
(* searches them for cycles (KconfigMenu, KconfigDeps), then the session   *)
(* (KconfigFrontEnds).  conf_parse exits if it has counted an error; no    *)
(* cycle counts as one, since sym_check_deps returns none (symbol.c:1282). *)
(***************************************************************************)
EXTENDS KconfigDeps, KconfigFrontEnds

CONSTANT Followed   \* the menus whose sessions are followed

ProgramInit == CheckedInit /\ SessionInit

Parse == CheckedNext /\ UNCHANGED session

Main ==
    /\ done = Len(SymOf) + 2 /\ zconfnerrs = 0 /\ menu \in Followed
    /\ Start \/ SessionNext
    /\ UNCHANGED <<vars, checkvars>>

ProgramSpec == ProgramInit /\ [][Parse \/ Main]_<<vars, checkvars, session>>

-----------------------------------------------------------------------------
\* The menus a session starts with are right: rewriting has kept what the files
\* say, nesting hides nothing, and cycles are reported if and only if there are any
\* (conf_parse; menu.c:279-374, expr.c, symbol.c:1081-1287).  Sessions leave
\* the menus alone, so it is asked until the first one begins.
MenusAreRight ==
    at = "parse" => RewritingKeepsMeaning /\ NestingHidesNothing /\ CyclesAreFound
=============================================================================
