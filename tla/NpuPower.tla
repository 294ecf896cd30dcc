------------------------------ MODULE NpuPower ------------------------------
(***************************************************************************)
(* npu_powerctrl: the command that switches the rails, the clock and the   *)
(* reset of the NPU of the RK3399Pro through GPIOs, and puts the NPU to    *)
(* sleep and wakes it with a handshake: a pulse on INT asks, the level of  *)
(* PMU_SLEEP answers.  Each invocation runs one command                    *)
(*     -i gpio init   -o power up or reset   -d power down                 *)
(*     -s suspend     -r resume                                            *)
(* as a list of writes to sysfs, one step each, and may be killed between  *)
(* any two of them.  The sleep hook 01npu runs the commands one at a time. *)
(*                                                                         *)
(* The delays, the messages, the 32 kHz clock and the PCIe and USB parts   *)
(* of suspend and resume are left out.  The NPU is an environment: it      *)
(* answers a pulse when it likes, also after the command has given up or   *)
(* was killed, and while another one runs.                                 *)
(***************************************************************************)
EXTENDS Integers, Sequences

CONSTANTS
    Retries,    \* the polls of a handshake: retry counts from this (100)
    OffReads,   \* what PMU_SLEEP may read while the NPU does not drive it
    Kills       \* commands may be killed

ASSUME RetriesAssumption == Retries \in Nat \ {0, 1}
ASSUME OffReadsAssumption == OffReads \subseteq {0, 1} /\ OffReads # {}
ASSUME KillsAssumption == Kills \in BOOLEAN

VARIABLES
    exported,   \* the GPIOs exported to sysfs
    out,        \* those whose direction is "out"
    line,       \* the level of each line, and of the clock's enable
    cmd,        \* the command that runs, or the last one that did
    pc,         \* the index of its next step
    retry,      \* its retry counter
    status,     \* how it goes: its exit code is 0 when "ok", -1 when "failed"
    npu,        \* the NPU itself
    asked,      \* the NPU has seen a pulse it has not answered
    overtook    \* history: it had not, when the last command began
vars == <<exported, out, line, cmd, pc, retry, status, npu, asked, overtook>>

gpio_list == <<"VDD_0V8", "VDD_LOG", "VCC_1V8", "VDD_CPU", "VCCIO_3V3", "VDD",
               "RESET", "PMU_SLEEP", "INT">>

Gpios == {gpio_list[i] : i \in DOMAIN gpio_list}
Lines == Gpios \cup {"CLK"}

Commands == {"-i", "-o", "-d", "-s", "-r"}

\* The rails that must be up first, those that come after, and what a
\* sleeping NPU keeps and a running one needs.
FirstRails == {"VDD_0V8", "VDD_LOG", "VCC_1V8"}
LastRails == {"VDD_CPU", "VCCIO_3V3", "VDD"}
KeptAsleep == FirstRails \cup {"VCCIO_3V3", "RESET"}
Needed == KeptAsleep \cup LastRails \cup {"CLK"}

-----------------------------------------------------------------------------
(* The commands as lists of steps.                                         *)

Do(what, g) == [do |-> what, line |-> g, val |-> 0]
Low(l) == [do |-> "set", line |-> l, val |-> 0]
High(l) == [do |-> "set", line |-> l, val |-> 1]

\* Each GPIO is exported and made an output, the input included; then that.
npu_power_gpio_init ==
    [i \in 1..(2 * Len(gpio_list) + 1) |->
        IF i > 2 * Len(gpio_list) THEN Do("in", "PMU_SLEEP")
        ELSE IF i % 2 = 1 THEN Do("export", gpio_list[(i + 1) \div 2])
        ELSE Do("out", gpio_list[i \div 2])]

\* Mutant: the CPU rail comes up before the 1.8 V.
npu_resetCpuEarly ==
    <<Low("CLK"), Low("VDD"), Low("VCCIO_3V3"), Low("VDD_CPU"), Low("VCC_1V8"),
      Low("VDD_0V8"), Low("VDD_LOG"), Low("INT"), Low("RESET"),
      High("VDD_0V8"), High("VDD_LOG"), High("VDD_CPU"), High("VCC_1V8"),
      High("CLK"), High("VCCIO_3V3"), High("VDD"), High("RESET")>>

\* Mutant: the reset is not asserted first.
npu_resetNoReset ==
    <<Low("CLK"), Low("VDD"), Low("VCCIO_3V3"), Low("VDD_CPU"), Low("VCC_1V8"),
      Low("VDD_0V8"), Low("VDD_LOG"), Low("INT"),
      High("VDD_0V8"), High("VDD_LOG"), High("VCC_1V8"), High("CLK"),
      High("VDD_CPU"), High("VCCIO_3V3"), High("VDD"), High("RESET")>>

npu_reset ==
    <<Low("CLK"), Low("VDD"), Low("VCCIO_3V3"), Low("VDD_CPU"), Low("VCC_1V8"),
      Low("VDD_0V8"), Low("VDD_LOG"), Low("INT"), Low("RESET"),
      High("VDD_0V8"), High("VDD_LOG"), High("VCC_1V8"), High("CLK"),
      High("VDD_CPU"), High("VCCIO_3V3"), High("VDD"), High("RESET")>>

npu_poweroff ==
    <<Low("VDD"), Low("VCCIO_3V3"), Low("VDD_CPU"), Low("VCC_1V8"),
      Low("VDD_0V8"), Low("VDD_LOG"), Low("INT"), Low("RESET"), Low("CLK")>>

\* Mutant: the rails are cut without waiting for the NPU to sleep.
npu_suspendAtOnce ==
    <<Do("exit_if_asleep", "PMU_SLEEP"), High("INT"), Low("INT"),
      Low("VDD_CPU"), Low("VDD"), Low("CLK")>>

\* The USB and PCIe of the NPU are disconnected between the first two steps.
npu_suspend ==
    <<Do("exit_if_asleep", "PMU_SLEEP"), High("INT"), Low("INT"),
      Do("wait_asleep", "PMU_SLEEP"), Low("VDD_CPU"), Low("VDD"), Low("CLK")>>

npu_resume ==
    <<Do("exit_if_awake", "PMU_SLEEP"), High("CLK"), High("VDD_CPU"), High("VDD"),
      High("INT"), Low("INT"), Do("wait_awake", "PMU_SLEEP")>>

Program ==
    [c \in Commands |->
        CASE c = "-i" -> npu_power_gpio_init
          [] c = "-o" -> npu_reset
          [] c = "-d" -> npu_poweroff
          [] c = "-s" -> npu_suspend
          [] c = "-r" -> npu_resume]

-----------------------------------------------------------------------------
Init ==
    /\ exported = {} /\ out = {}
    /\ line = [l \in Lines |-> 0]
    /\ cmd = "-i" /\ pc = 1 /\ retry = Retries /\ status = "none"
    /\ npu = "off" /\ asked = FALSE /\ overtook = FALSE

Running == status = "running"

AtStep(kinds) ==
    /\ Running
    /\ pc <= Len(Program[cmd])
    /\ Program[cmd][pc].do \in kinds

Instr == Program[cmd][pc]

Advance == pc' = pc + 1 /\ UNCHANGED <<cmd, retry, status>>

Exit(code) == status' = code /\ UNCHANGED <<cmd, pc, retry>>

(* What the NPU becomes when the lines are levels: it boots when its reset *)
(* is released with all it needs, and is lost without what it needs.       *)
NpuUnder(levels) ==
    IF \A l \in Needed : levels[l] = 1
    THEN IF line["RESET"] = 0 THEN "awake" ELSE npu
    ELSE IF npu = "asleep" /\ \A l \in KeptAsleep : levels[l] = 1
         THEN "asleep"
         ELSE "off"

(* A line gets a level, and the NPU its consequences: the rising edge of   *)
(* INT is a question to an NPU that has booted.                            *)
Drive(l, v) ==
    LET levels == [line EXCEPT ![l] = v] IN
    /\ line' = levels
    /\ npu' = NpuUnder(levels)
    /\ asked' = /\ npu' # "off"
                /\ asked \/ (l = "INT" /\ line[l] = 0 /\ v = 1)

(* The value file of a GPIO that is not an output cannot be written, and   *)
(* set_gpio tells nobody.                                                  *)
Writable(l) == l = "CLK" \/ l \in out

set_gpio ==
    /\ AtStep({"set"})
    /\ IF Writable(Instr.line)
       THEN Drive(Instr.line, Instr.val)
       ELSE UNCHANGED <<line, npu, asked>>
    /\ Advance
    /\ UNCHANGED <<exported, out>>

(* A GPIO that is exported already cannot be exported again: the init      *)
(* returns, and main exits with 0.                                         *)
request_gpio ==
    /\ AtStep({"export"})
    /\ IF Instr.line \in exported
       THEN Exit("ok") /\ UNCHANGED exported
       ELSE Advance /\ exported' = exported \cup {Instr.line}
    /\ UNCHANGED <<out, line, npu, asked>>

\* Direction "out" also drives the line low.
set_gpio_dir ==
    /\ AtStep({"out", "in"})
    /\ IF Instr.do = "out"
       THEN out' = out \cup {Instr.line} /\ Drive(Instr.line, 0)
       ELSE out' = out \ {Instr.line} /\ UNCHANGED <<line, npu, asked>>
    /\ Advance
    /\ UNCHANGED exported

(* What get_gpio(NPU_PMU_SLEEP_GPIO) may answer: 0 or not 0.  A file that  *)
(* cannot be opened leaves its result uninitialized.                       *)
get_gpio ==
    IF "PMU_SLEEP" \notin exported THEN {0, 1}
    ELSE IF "PMU_SLEEP" \in out THEN {0}
    ELSE IF npu = "off" THEN OffReads
    ELSE IF npu = "asleep" THEN {1}
    ELSE {0}

Wanted(kind) == IF kind \in {"exit_if_asleep", "wait_asleep"} THEN 1 ELSE 0

CheckState ==
    /\ AtStep({"exit_if_asleep", "exit_if_awake"})
    /\ \E level \in get_gpio :
        IF level = Wanted(Instr.do) THEN Exit("ok") ELSE Advance
    /\ UNCHANGED <<exported, out, line, npu, asked>>

-----------------------------------------------------------------------------
(* The NPU.                                                                *)

Answerable ==
    /\ asked
    /\ npu = "asleep" => \A l \in Needed : line[l] = 1

NpuAnswers ==
    /\ Answerable
    /\ npu' = IF npu = "awake" THEN "asleep" ELSE "awake"
    /\ asked' = FALSE
    /\ UNCHANGED <<exported, out, line, cmd, pc, retry, status>>

-----------------------------------------------------------------------------
(* while (--retry) { if (get_gpio(..)) break; }: a poll, or the end of the *)
(* polls, which is reported as a timeout.                                  *)
AtPoll == AtStep({"wait_asleep", "wait_awake"})

Poll ==
    /\ AtPoll
    /\ retry > 1
    /\ retry' = retry - 1
    /\ \E level \in get_gpio : pc' = IF level = Wanted(Instr.do) THEN pc + 1 ELSE pc
    /\ UNCHANGED <<cmd, status, exported, out, line, npu, asked>>

\* Mutant: the timeout is printed and not returned.
TimeoutUnreported ==
    /\ AtPoll
    /\ retry = 1
    /\ Exit("ok")
    /\ UNCHANGED <<exported, out, line, npu, asked>>

Timeout ==
    /\ AtPoll
    /\ retry = 1
    /\ Exit("failed")
    /\ UNCHANGED <<exported, out, line, npu, asked>>

Return ==
    /\ Running
    /\ pc > Len(Program[cmd])
    /\ Exit("ok")
    /\ UNCHANGED <<exported, out, line, npu, asked>>

Start(c) ==
    /\ ~Running
    /\ cmd' = c /\ pc' = 1 /\ retry' = Retries /\ status' = "running"
    /\ overtook' = asked
    /\ UNCHANGED <<exported, out, line, npu, asked>>

Kill ==
    /\ Kills
    /\ Running
    /\ Exit("killed")
    /\ UNCHANGED <<exported, out, line, npu, asked>>

Step == set_gpio \/ request_gpio \/ set_gpio_dir \/ CheckState \/ Poll \/ Timeout \/ Return

Next ==
    \/ (Step \/ NpuAnswers \/ Kill) /\ UNCHANGED overtook
    \/ \E c \in Commands : Start(c)

Spec == Init /\ [][Next]_vars

-----------------------------------------------------------------------------
(* Properties.                                                             *)

TypeOK ==
    /\ exported \subseteq Gpios /\ out \subseteq exported
    /\ line \in [Lines -> {0, 1}]
    /\ cmd \in Commands /\ pc \in 1..(Len(Program[cmd]) + 1)
    /\ retry \in 1..Retries
    /\ status \in {"none", "running", "ok", "failed", "killed"}
    /\ npu \in {"off", "awake", "asleep"}
    /\ asked \in BOOLEAN

\* The init has done its last step, in this run of it or an earlier one.
Ready == "PMU_SLEEP" \in exported \ out

(* No late rail is up without the three that must come first, whatever     *)
(* sequence of commands, killed at whatever step, led here: neither the    *)
(* order of npu_reset and npu_poweroff nor the early return of npu_resume  *)
(* lets one through.                                                       *)
RailsInOrder ==
    "PMU_SLEEP" \in exported =>
        ((\E l \in LastRails : line[l] = 1) => \A l \in FirstRails : line[l] = 1)

(* What makes RailsInOrder inductive: what each command has done so far,   *)
(* what the init has exported, and that an NPU that has booted keeps the   *)
(* first rails.                                                            *)
Rails == FirstRails \cup LastRails
AllUp(rails) == \A l \in rails : line[l] = 1
AllDown(rails) == \A l \in rails : line[l] = 0
Doing(c, first) == Running /\ cmd = c /\ pc >= first

UpAreOutputs == \A l \in Rails : line[l] = 1 => l \in out

InitProgress ==
    /\ exported # {} => "VDD_0V8" \in exported
    /\ Doing("-i", 2) =>
        /\ AllDown(Rails)
        /\ \A k \in 1..9 : 2 * k <= pc => gpio_list[k] \in exported
        /\ \A k \in 1..7 : 2 * k < pc => gpio_list[k] \in out
    /\ "PMU_SLEEP" \in exported => Rails \cup {"RESET"} \subseteq out

ResetProgress ==
    /\ pc <= 14 =>
        /\ Doing("-o", 3) => line["VDD"] = 0
        /\ Doing("-o", 4) => line["VCCIO_3V3"] = 0
        /\ Doing("-o", 5) => line["VDD_CPU"] = 0
    /\ "PMU_SLEEP" \in exported =>
        /\ Doing("-o", 11) => line["VDD_0V8"] = 1
        /\ Doing("-o", 12) => line["VDD_LOG"] = 1
        /\ Doing("-o", 13) => line["VCC_1V8"] = 1

PoweroffProgress ==
    /\ Doing("-d", 2) => line["VDD"] = 0
    /\ Doing("-d", 3) => line["VCCIO_3V3"] = 0
    /\ Doing("-d", 4) => line["VDD_CPU"] = 0

ResumeProgress == "PMU_SLEEP" \in exported /\ Doing("-r", 2) => AllUp(FirstRails)

BootedIsPowered ==
    /\ npu # "off" => AllUp(FirstRails)
    /\ asked => npu # "off"

IInv ==
    /\ TypeOK
    /\ UpAreOutputs
    /\ InitProgress
    /\ ResetProgress
    /\ PoweroffProgress
    /\ ResumeProgress
    /\ BootedIsPowered
    /\ RailsInOrder

(* What makes the other three inductive.  A running NPU has all it needs,  *)
(* a sleeping one what it keeps; npu_reset boots an NPU that it has turned *)
(* off; and a command that found no question open has asked at most once.  *)
NpuIsFed ==
    /\ npu = "awake" => AllUp(Needed)
    /\ npu = "asleep" => AllUp(KeptAsleep)

ResetSoFar ==
    /\ Running /\ pc \in 10..17 => line["RESET"] = 0
    /\ Doing("-o", 14) => line["CLK"] = 1
    /\ Doing("-o", 15) => line["VDD_CPU"] = 1
    /\ Doing("-o", 16) => line["VCCIO_3V3"] = 1
    /\ Doing("-o", 17) => line["VDD"] = 1
    /\ Doing("-o", 18) \/ status = "ok" => npu = "awake" /\ ~asked

SuspendSoFar ==
    /\ pc = 2 => npu # "asleep" /\ ~asked
    /\ npu = "asleep" => ~asked
    /\ pc >= 5 => npu = "asleep"

ResumeSoFar ==
    /\ pc >= 3 => line["CLK"] = 1
    /\ pc >= 4 => line["VDD_CPU"] = 1
    /\ pc >= 5 => line["VDD"] = 1
    /\ pc <= 5 => npu = "asleep" /\ ~asked
    /\ pc >= 6 => npu # "off" /\ (npu = "awake" => ~asked)
    /\ pc = 8 => npu # "asleep"

ResetInv == NpuIsFed /\ (Ready /\ cmd = "-o" => ResetSoFar)

AskedOnce ==
    /\ Running /\ (pc = 1 \/ cmd \in {"-i", "-o", "-d"}) => ~asked
    /\ Doing("-s", 2) => SuspendSoFar
    /\ Doing("-r", 2) => ResumeSoFar
    /\ cmd = "-r" /\ status = "ok" => npu # "asleep" /\ ~asked

HandshakeInv == NpuIsFed /\ (Ready /\ ~overtook => AskedOnce)

(* A running NPU loses what it needs only to a reset or a power down:      *)
(* npu_suspend cuts the CPU rail, VDD and the clock of a sleeping NPU,     *)
(* whatever was killed or timed out before.  The exception is a command    *)
(* that began while the NPU still owed an answer to an earlier one: its    *)
(* own pulse may then come second, and wake what it is about to cut.       *)
TakenDownOnPurpose ==
    [][Ready /\ ~overtook /\ npu = "awake" /\ npu' = "off" => cmd \in {"-o", "-d"}]_vars

(* "-o power up or reset npu": from any state, that of a half-done         *)
(* power down or suspend included, npu_reset ends with the NPU running.    *)
PowerUpWorks == Ready /\ cmd = "-o" /\ status = "ok" => npu = "awake"

(* A resume that exits with 0 leaves no NPU asleep, also after suspends    *)
(* and resumes that were killed, or timed out and were answered late;      *)
(* unless it began before that answer.                                     *)
ResumeWakes == Ready /\ ~overtook /\ cmd = "-r" /\ status = "ok" => npu # "asleep"

(* "-r wakup npu", says the usage, of every resume: but after a suspend    *)
(* that gave up, or was killed, PMU_SLEEP still reads awake, the resume    *)
(* has nothing to do and exits with 0, and then the NPU falls asleep.      *)
ResumeMeansAwake == Ready /\ cmd = "-r" /\ status = "ok" => npu # "asleep"
=============================================================================
