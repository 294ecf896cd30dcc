-------------------------- MODULE PkgGeneric_proofs --------------------------
(***************************************************************************)
(* Theorems about PkgGeneric, for every set of packages, dependencies,     *)
(* commands and number of jobs.                                            *)
(***************************************************************************)
EXTENDS PkgGeneric, TLAPS

-----------------------------------------------------------------------------
(***************************************************************************)
(* The wiring.                                                             *)
(***************************************************************************)
\* The prerequisites of a step are steps of the same package, other than it.
LEMMA PrereqsSamePackage ==
    ASSUME NEW n \in Nodes
    PROVE  /\ Prereqs(n) \subseteq Nodes
           /\ \A m \in Prereqs(n) : m[1] = n[1] /\ m # n
<1>1. n \in Pkgs \X Steps /\ n[2] \in StepsOf(n[1])
  BY DEF Nodes
<1>2. /\ PrereqSteps(n[1], n[2]) \subseteq StepsOf(n[1])
      /\ n[2] \notin PrereqSteps(n[1], n[2])
  BY DEF PrereqSteps, Precedes
<1>3. StepsOf(n[1]) \subseteq Steps
  BY <1>1, PkgConstants DEF StepsOf, Steps, InstallSteps, TarballSteps
<1> QED
  BY <1>1, <1>2, <1>3 DEF Prereqs, Nodes

\* An install step depends on the build step of its package.
LEMMA InstallNeedsBuilt ==
    ASSUME NEW n \in Nodes, n[2] \in InstallSteps
    PROVE  <<n[1], "built">> \in Nodes /\ <<n[1], "built">> \in Prereqs(n)
<1>1. "built" \in PrereqSteps(n[1], n[2])
  BY DEF PrereqSteps, Precedes, InstallSteps, StepsOf
<1> QED
  BY <1>1, PrereqsSamePackage DEF Prereqs

\* The sources of a step have a version.
LEMMA VersionIsNat ==
    ASSUME TypeOK, NEW n \in Nodes
    PROVE  VersionFor(n) \in Nat
<1>1. n[1] \in Pkgs /\ src[n[1]] \in Nat
  BY DEF TypeOK, Nodes
<1>2. CASE n[2] \in InstallSteps
  <2>1. <<n[1], "built">> \in Nodes
    BY <1>2, InstallNeedsBuilt
  <2> QED
    BY <1>2, <2>1 DEF VersionFor, TypeOK
<1>3. CASE n[2] \in {"built", "configured"} /\ n[1] \in Override
  <2>1. <<n[1], "rsynced">> \in Nodes
    BY <1>1, <1>3 DEF Nodes, StepsOf, Steps
  <2> QED
    BY <1>3, <2>1 DEF VersionFor, TypeOK, InstallSteps
<1> QED
  BY <1>1, <1>2, <1>3 DEF VersionFor
-----------------------------------------------------------------------------
(***************************************************************************)
(* Type correctness.                                                       *)
(***************************************************************************)
LEMMA NoGoals == <<>> \in Seq(Goals)
OBVIOUS

LEMMA TypeInit == Init => TypeOK
<1> SUFFICES ASSUME Init PROVE TypeOK
  OBVIOUS
<1>1. cmd \in Seq(Goals) /\ todo \subseteq DOMAIN cmd
  BY NoGoals DEF Init
<1>2. /\ stamp \in [Nodes -> Nat]
      /\ ver \in [Nodes -> Nat]
      /\ seen \in [Nodes -> Nat]
      /\ out \in [Nodes -> {"none", "torn", "done", "lost"}]
  BY DEF Init
<1>3. src \in [Pkgs -> Nat] /\ asked \in [Pkgs -> Nat] /\ now \in Nat
  BY DEF Init
<1> QED
  BY <1>1, <1>2, <1>3 DEF Init, TypeOK

\* Whatever ends the run early.
LEMMA TypeStop ==
    ASSUME TypeOK, Stop,
           stamp' \in [Nodes -> Nat], out' \in [Nodes -> {"none", "torn", "done", "lost"}],
           running' \subseteq Nodes, UNCHANGED <<ver, now, src, asked>>
    PROVE  TypeOK'
<1>1. cmd' \in Seq(Goals) /\ todo' \subseteq DOMAIN cmd'
  BY NoGoals DEF Stop
<1>2. /\ seen' \in [Nodes -> Nat]
      /\ ran' \subseteq Nodes
      /\ ok' \in BOOLEAN
  BY DEF Stop
<1> QED
  BY <1>1, <1>2 DEF TypeOK

LEMMA TypeUser ==
    ASSUME TypeOK,
           \/ Kill
           \/ \E c \in Commands : RunMake(c)
           \/ \E p \in Pkgs : Edit(p)
    PROVE  TypeOK'
<1> USE DEF TypeOK, tree, makes
<1>1. CASE Kill
  BY <1>1, TypeStop DEF Kill
<1>2. ASSUME NEW c \in Commands, RunMake(c)
      PROVE  TypeOK'
  BY <1>2, PkgConstants DEF RunMake
<1>3. ASSUME NEW p \in Pkgs, Edit(p)
      PROVE  TypeOK'
  BY <1>3 DEF Edit
<1> QED
  BY <1>1, <1>2, <1>3

LEMMA TypeNode ==
    ASSUME TypeOK, NEW n \in Nodes,
           Consider(n) \/ BeginRecipe(n) \/ EndRecipe(n) \/ FailRecipe(n)
    PROVE  TypeOK'
<1> USE DEF TypeOK, tree, makes
<1>1. CASE Consider(n)
  BY <1>1 DEF Consider
<1>2. CASE BeginRecipe(n)
  BY <1>2, VersionIsNat DEF BeginRecipe
<1>3. CASE EndRecipe(n)
  BY <1>3 DEF EndRecipe
<1>4. CASE FailRecipe(n)
  BY <1>4, TypeStop DEF FailRecipe
<1> QED
  BY <1>1, <1>2, <1>3, <1>4

LEMMA TypeGoal ==
    ASSUME TypeOK, NEW i \in todo,
           MakeDone(i) \/ RemoveStamp(i) \/ CleanDone(i) \/ RemoveDir(i) \/ RemoveDirKilled(i)
    PROVE  TypeOK'
<1> USE DEF TypeOK, tree, makes
<1>1. CASE MakeDone(i)
  BY <1>1 DEF MakeDone
<1>2. CASE RemoveStamp(i)
  <2>1. PICK k \in DOMAIN CleanOrder :
            stamp' = [stamp EXCEPT ![<<cmd[i].pkg, CleanOrder[k]>>] = 0]
    BY <1>2 DEF RemoveStamp, Present
  <2>2. stamp' \in [Nodes -> Nat]
    BY <2>1
  <2> QED
    BY <1>2, <2>2 DEF RemoveStamp
<1>3. CASE CleanDone(i)
  BY <1>3 DEF CleanDone
<1>4. CASE RemoveDir(i)
  BY <1>4 DEF RemoveDir
<1>5. CASE RemoveDirKilled(i)
  <2>1. stamp' \in [Nodes -> Nat] /\ out' \in [Nodes -> {"none", "torn", "done", "lost"}]
    BY <1>5 DEF RemoveDirKilled
  <2> QED
    BY <1>5, <2>1, TypeStop DEF RemoveDirKilled
<1> QED
  BY <1>1, <1>2, <1>3, <1>4, <1>5

\* The variables of the package engine keep their types: no goal is left over
\* from a list that has been given up.
THEOREM TypeCorrect == Spec => []TypeOK
<1>1. TypeOK /\ [Next]_vars => TypeOK'
  <2> SUFFICES ASSUME TypeOK, [Next]_vars PROVE TypeOK'
    OBVIOUS
  <2>1. CASE UNCHANGED vars
    BY <2>1 DEF TypeOK, vars
  <2>2. CASE Next
    BY <2>2, TypeUser, TypeNode, TypeGoal DEF Next, MakeStep
  <2> QED
    BY <2>1, <2>2
<1> QED
  BY <1>1, TypeInit, PTL DEF Spec
-----------------------------------------------------------------------------
(***************************************************************************)
(* The inductive invariant.                                                *)
(***************************************************************************)
\* Removing stamps makes no step trusted that was not.
LEMMA TrustShrinks ==
    ASSUME TypeOK, TypeOK', NEW n \in Nodes, Trusted(n)',
           \A m \in Nodes : stamp'[m] \in {0, stamp[m]}
    PROVE  Trusted(n)
<1>1. \A m \in Prereqs(n) : m \in Nodes
  BY PrereqsSamePackage
<1>2. \A m \in Prereqs(n) \union {n} : stamp'[m] > 0 => stamp'[m] = stamp[m]
  BY <1>1
<1>3. stamp'[n] = stamp[n] /\ \A m \in Prereqs(n) : stamp'[m] = stamp[m]
  BY <1>2 DEF Trusted
<1> QED
  BY <1>3 DEF Trusted

\* The newest stamp: the steps that depend on it are not trusted any more.
LEMMA TrustAfterTouch ==
    ASSUME TypeOK, StampsArePast, NEW n0 \in Nodes, NEW n \in Nodes, n # n0,
           stamp' = [stamp EXCEPT ![n0] = now + 1], Trusted(n)'
    PROVE  Trusted(n)
<1>1. \A m \in Prereqs(n) : m \in Nodes
  BY PrereqsSamePackage
<1>2. stamp'[n0] = now + 1 /\ stamp'[n] = stamp[n]
  BY DEF TypeOK
<1>3. n0 \notin Prereqs(n)
  <2>1. stamp[n] <= now /\ stamp[n] \in Nat /\ now \in Nat
    BY DEF TypeOK, StampsArePast
  <2> QED
    BY <1>2, <2>1 DEF Trusted
<1>4. \A m \in Prereqs(n) : stamp'[m] = stamp[m]
  BY <1>1, <1>3 DEF TypeOK
<1> QED
  BY <1>2, <1>4 DEF Trusted

\* The steps that begin and complete no recipe: stamps and notes disappear, and
\* outputs with them.
LEMMA QuietIInv ==
    ASSUME IInv, TypeOK', now' = now, ver' = ver, running' \subseteq running,
           \A m \in Nodes : stamp'[m] \in {0, stamp[m]},
           \A m \in Nodes : seen'[m] \in {0, seen[m]},
           running' # {} /\ todo' # {} => todo # {} /\ seen' = seen,
           \A m \in Nodes : \/ out'[m] = out[m]
                            \/ out'[m] = "lost"
                            \/ out'[m] = "none" /\ stamp'[m] = 0
    PROVE  IInv'
<1>1. StampsArePast'
  <2> SUFFICES ASSUME NEW m \in Nodes PROVE stamp'[m] <= now
    BY DEF StampsArePast
  <2>1. stamp[m] <= now /\ now \in Nat /\ stamp'[m] \in {0, stamp[m]}
    BY DEF IInv, StampsArePast, TypeOK
  <2> QED
    BY <2>1
<1>2. SeenIsStamp'
  BY DEF IInv, SeenIsStamp, TypeOK
<1>3. TrustedMeansDone'
  <2> SUFFICES ASSUME NEW n \in Nodes, Trusted(n)'
               PROVE  out'[n] \in {"done", "lost"}
    BY DEF TrustedMeansDone
  <2>1. out[n] \in {"done", "lost"}
    BY TrustShrinks DEF IInv, TrustedMeansDone
  <2>2. stamp'[n] > 0
    BY DEF Trusted
  <2> QED
    BY <2>1, <2>2
<1>4. SeenIsNotRunning'
  BY DEF IInv, SeenIsNotRunning, TypeOK
<1>5. InstallsWhatIsBuilt'
  BY DEF IInv, InstallsWhatIsBuilt
<1>6. InstalledIsBuilt'
  <2> SUFFICES ASSUME NEW n \in Nodes, n[2] \in InstallSteps, Trusted(n)',
                      out'[n] = "done", out'[<<n[1], "built">>] = "done"
               PROVE  ver'[n] = ver'[<<n[1], "built">>]
    BY DEF InstalledIsBuilt
  <2>1. Trusted(n)
    BY TrustShrinks DEF IInv
  <2>2. <<n[1], "built">> \in Nodes
    BY InstallNeedsBuilt
  <2>3. out[n] = "done" /\ out[<<n[1], "built">>] = "done"
    BY <2>2
  <2> QED
    BY <2>1, <2>3 DEF IInv, InstalledIsBuilt
<1> QED
  BY <1>1, <1>2, <1>3, <1>4, <1>5, <1>6 DEF IInv

LEMMA ConsiderIInv ==
    ASSUME IInv, NEW n \in Nodes, Consider(n)
    PROVE  IInv'
<1> USE DEF Consider, tree, makes
<1>1. TypeOK'
  BY TypeNode DEF IInv
<1>2. seen'[n] = stamp[n] /\ \A m \in Nodes \ {n} : seen'[m] = seen[m]
  BY DEF IInv, TypeOK
<1>3. n \notin running /\ stamp[n] > 0
  <2>1. stamp[n] \in Nat
    BY DEF IInv, TypeOK
  <2> QED
    BY <2>1 DEF Ready, OutOfDate
<1>4. StampsArePast' /\ TrustedMeansDone' /\ InstalledIsBuilt'
  BY DEF IInv, StampsArePast, TrustedMeansDone, InstalledIsBuilt, Trusted
<1>5. SeenIsStamp' /\ SeenIsNotRunning'
  BY <1>2, <1>3 DEF IInv, SeenIsStamp, SeenIsNotRunning
<1>6. InstallsWhatIsBuilt'
  <2> SUFFICES ASSUME NEW r \in running, r[2] \in InstallSteps, todo # {}
               PROVE  seen'[<<r[1], "built">>] > 0
    BY DEF IInv, InstallsWhatIsBuilt
  <2>1. <<r[1], "built">> \in Nodes
    BY InstallNeedsBuilt DEF IInv, TypeOK
  <2> QED
    BY <1>2, <1>3, <2>1 DEF IInv, InstallsWhatIsBuilt
<1> QED
  BY <1>1, <1>4, <1>5, <1>6 DEF IInv

LEMMA BeginIInv ==
    ASSUME IInv, NEW n \in Nodes, BeginRecipe(n)
    PROVE  IInv'
<1> USE DEF BeginRecipe, makes
<1>1. TypeOK'
  BY TypeNode DEF IInv
<1>2. /\ out'[n] = "torn"
      /\ ver'[n] = VersionFor(n)
      /\ \A m \in Nodes \ {n} : out'[m] = out[m] /\ ver'[m] = ver[m]
  BY DEF IInv, TypeOK
<1>3. /\ seen[n] = 0 /\ n \notin running /\ todo # {}
      /\ \A m \in Prereqs(n) : m \in Nodes /\ seen[m] > 0
  BY PrereqsSamePackage DEF Ready, Before
<1>4. StampsArePast' /\ SeenIsStamp'
  BY DEF IInv, StampsArePast, SeenIsStamp
<1>5. ~Trusted(n)
  <2>1. CASE stamp[n] = 0
    BY <2>1 DEF Trusted
  <2>2. ASSUME NEW m \in Prereqs(n), seen[m] > stamp[n]
        PROVE  ~Trusted(n)
    <3>1. m \in Nodes /\ stamp[m] \in {0, seen[m]}
      BY <1>3 DEF IInv, SeenIsStamp
    <3>2. stamp[n] \in Nat /\ stamp[m] \in Nat /\ seen[m] \in Nat
      BY <3>1 DEF IInv, TypeOK
    <3> QED
      BY <2>2, <3>1, <3>2 DEF Trusted
  <2> QED
    BY <2>1, <2>2 DEF OutOfDate
<1>6. TrustedMeansDone'
  BY <1>2, <1>5 DEF IInv, TrustedMeansDone, Trusted
<1>7. SeenIsNotRunning'
  BY <1>3 DEF IInv, SeenIsNotRunning
<1>8. InstallsWhatIsBuilt'
  <2> SUFFICES ASSUME NEW r \in running \union {n}, r[2] \in InstallSteps
               PROVE  /\ <<r[1], "built">> \notin running \union {n}
                      /\ seen[<<r[1], "built">>] > 0
                      /\ ver'[r] = ver'[<<r[1], "built">>]
    BY DEF InstallsWhatIsBuilt
  <2> DEFINE b == <<r[1], "built">>
  <2>1. r \in Nodes
    BY DEF IInv, TypeOK
  <2>2. b \in Nodes /\ b \in Prereqs(r) /\ b # r
    BY <2>1, InstallNeedsBuilt, PrereqsSamePackage
  <2>3. CASE r = n
    <3>1. seen[b] > 0 /\ b \notin running
      BY <1>3, <2>2, <2>3 DEF IInv, SeenIsNotRunning
    <3>2. ver'[r] = ver[b]
      BY <1>2, <2>3 DEF VersionFor
    <3> QED
      BY <1>2, <2>2, <2>3, <3>1, <3>2
  <2>4. CASE r \in running
    <3>1. seen[b] > 0 /\ b \notin running /\ ver[r] = ver[b]
      BY <1>3, <2>4 DEF IInv, InstallsWhatIsBuilt
    <3>2. b # n /\ r # n
      BY <1>3, <2>4, <3>1
    <3> QED
      BY <1>2, <2>1, <2>2, <3>1, <3>2
  <2> QED
    BY <2>3, <2>4
<1>9. InstalledIsBuilt'
  <2> SUFFICES ASSUME NEW r \in Nodes, r[2] \in InstallSteps, Trusted(r)',
                      out'[r] = "done", out'[<<r[1], "built">>] = "done"
               PROVE  ver'[r] = ver'[<<r[1], "built">>]
    BY DEF InstalledIsBuilt
  <2>1. <<r[1], "built">> \in Nodes
    BY InstallNeedsBuilt
  <2>2. r # n /\ <<r[1], "built">> # n
    BY <1>2
  <2>3. Trusted(r)
    BY DEF Trusted
  <2> QED
    BY <1>2, <2>1, <2>2, <2>3 DEF IInv, InstalledIsBuilt
<1> QED
  BY <1>1, <1>4, <1>6, <1>7, <1>8, <1>9 DEF IInv

LEMMA EndIInv ==
    ASSUME IInv, NEW n \in Nodes, EndRecipe(n)
    PROVE  IInv'
<1> USE DEF EndRecipe, makes
<1>1. TypeOK'
  BY TypeNode DEF IInv
<1>2. /\ n \in running /\ now \in Nat /\ now' = now + 1
      /\ stamp'[n] = now + 1 /\ seen'[n] = now + 1 /\ out'[n] = "done"
      /\ \A m \in Nodes \ {n} : /\ stamp'[m] = stamp[m]
                                /\ seen'[m] = seen[m]
                                /\ out'[m] = out[m]
  BY DEF IInv, TypeOK
<1>3. StampsArePast'
  <2> SUFFICES ASSUME NEW m \in Nodes PROVE stamp'[m] <= now + 1
    BY DEF StampsArePast
  <2>1. stamp[m] <= now /\ stamp[m] \in Nat
    BY DEF IInv, StampsArePast, TypeOK
  <2> QED
    BY <1>2, <2>1
<1>4. SeenIsStamp'
  BY <1>2 DEF IInv, SeenIsStamp
<1>5. \A m \in Nodes \ {n} : Trusted(m)' => Trusted(m)
  BY TrustAfterTouch DEF IInv
<1>6. TrustedMeansDone'
  BY <1>2, <1>5 DEF IInv, TrustedMeansDone
<1>7. SeenIsNotRunning'
  BY <1>2 DEF IInv, SeenIsNotRunning
<1>8. InstallsWhatIsBuilt'
  <2> SUFFICES ASSUME NEW r \in running \ {n}, r[2] \in InstallSteps
               PROVE  /\ <<r[1], "built">> \notin running \ {n}
                      /\ todo # {} => seen'[<<r[1], "built">>] > 0
                      /\ ver[r] = ver[<<r[1], "built">>]
    BY DEF InstallsWhatIsBuilt
  <2>1. <<r[1], "built">> \in Nodes
    BY InstallNeedsBuilt DEF IInv, TypeOK
  <2> QED
    BY <1>2, <2>1 DEF IInv, InstallsWhatIsBuilt
<1>9. InstalledIsBuilt'
  <2> SUFFICES ASSUME NEW r \in Nodes, r[2] \in InstallSteps, Trusted(r)',
                      out'[r] = "done", out'[<<r[1], "built">>] = "done"
               PROVE  ver[r] = ver[<<r[1], "built">>]
    BY DEF InstalledIsBuilt
  <2> DEFINE b == <<r[1], "built">>
  <2>1. b \in Nodes /\ b \in Prereqs(r)
    BY InstallNeedsBuilt
  <2>2. CASE r = n
    BY <1>2, <2>2 DEF IInv, InstallsWhatIsBuilt
  <2>3. CASE r # n /\ b # n
    BY <1>2, <1>5, <2>1, <2>3 DEF IInv, InstalledIsBuilt
  <2>4. CASE r # n /\ b = n
    <3>1. stamp'[b] = now + 1 /\ stamp'[r] = stamp[r]
      BY <1>2, <2>4
    <3>2. stamp[r] <= now /\ stamp[r] \in Nat
      BY DEF IInv, StampsArePast, TypeOK
    <3> QED
      BY <1>2, <2>1, <3>1, <3>2 DEF Trusted
  <2> QED
    BY <2>2, <2>3, <2>4
<1> QED
  BY <1>1, <1>3, <1>4, <1>6, <1>7, <1>8, <1>9 DEF IInv

LEMMA InitIInv == Init => IInv
<1> SUFFICES ASSUME Init PROVE IInv
  OBVIOUS
<1>1. StampsArePast /\ SeenIsStamp /\ SeenIsNotRunning
  BY DEF Init, StampsArePast, SeenIsStamp, SeenIsNotRunning
<1>2. TrustedMeansDone /\ InstalledIsBuilt
  BY DEF Init, TrustedMeansDone, InstalledIsBuilt, Trusted
<1>3. InstallsWhatIsBuilt
  BY DEF Init, InstallsWhatIsBuilt
<1> QED
  BY <1>1, <1>2, <1>3, TypeInit DEF IInv

\* The user starts make, edits, or interrupts.
LEMMA UserIInv ==
    ASSUME IInv,
           \/ Kill
           \/ \E c \in Commands : RunMake(c)
           \/ \E p \in Pkgs : Edit(p)
    PROVE  IInv'
<1> USE DEF tree, makes
<1>1. TypeOK'
  BY TypeUser DEF IInv
<1>2. CASE Kill
  <2>1. \A m \in Nodes : seen'[m] = 0
    BY <1>2 DEF Kill, Stop
  <2> QED
    BY <1>1, <1>2, <2>1, QuietIInv DEF Kill, Stop
<1>3. ASSUME NEW c \in Commands, RunMake(c)
      PROVE  IInv'
  <2>1. \A m \in Nodes : seen'[m] = 0
    BY <1>3 DEF RunMake
  <2> QED
    BY <1>1, <1>3, <2>1, QuietIInv DEF RunMake, Idle
<1>4. ASSUME NEW p \in Pkgs, Edit(p)
      PROVE  IInv'
  BY <1>1, <1>4, QuietIInv DEF Edit
<1> QED
  BY <1>2, <1>3, <1>4

LEMMA FailIInv ==
    ASSUME IInv, NEW n \in Nodes, FailRecipe(n)
    PROVE  IInv'
<1> USE DEF FailRecipe, tree
<1>1. TypeOK'
  BY TypeNode DEF IInv
<1>2. \A m \in Nodes : seen'[m] = 0
  BY DEF Stop
<1> QED
  BY <1>1, <1>2, QuietIInv DEF Stop

\* A goal is dealt with.
LEMMA GoalIInv ==
    ASSUME IInv, NEW i \in todo,
           MakeDone(i) \/ RemoveStamp(i) \/ CleanDone(i) \/ RemoveDir(i) \/ RemoveDirKilled(i)
    PROVE  IInv'
<1> USE DEF tree, makes
<1>1. TypeOK'
  BY TypeGoal DEF IInv
<1>2. CASE MakeDone(i)
  BY <1>1, <1>2, QuietIInv DEF MakeDone
<1>3. CASE CleanDone(i)
  BY <1>1, <1>3, QuietIInv DEF CleanDone
<1>4. CASE RemoveStamp(i)
  <2>1. PICK k \in DOMAIN CleanOrder :
            stamp' = [stamp EXCEPT ![<<cmd[i].pkg, CleanOrder[k]>>] = 0]
    BY <1>4 DEF RemoveStamp, Present
  <2>2. \A m \in Nodes : stamp'[m] \in {0, stamp[m]}
    BY <2>1 DEF IInv, TypeOK
  <2> QED
    BY <1>1, <1>4, <2>2, QuietIInv DEF RemoveStamp
<1>5. CASE RemoveDir(i)
  <2> DEFINE p == cmd[i].pkg
  <2>1. \A m \in Nodes : stamp'[m] = IF m[1] = p THEN 0 ELSE stamp[m]
    BY <1>5 DEF RemoveDir
  <2>2. \A m \in Nodes : out'[m] = IF m \in InDir(p) THEN "none" ELSE out[m]
    BY <1>5 DEF RemoveDir
  <2>3. \A m \in InDir(p) : m[1] = p
    BY DEF InDir
  <2>4. \A m \in Nodes : out'[m] = out[m] \/ (out'[m] = "none" /\ stamp'[m] = 0)
    <3> SUFFICES ASSUME NEW m \in Nodes
                 PROVE  out'[m] = out[m] \/ (out'[m] = "none" /\ stamp'[m] = 0)
      OBVIOUS
    <3>1. CASE m \in InDir(p)
      BY <2>1, <2>2, <2>3, <3>1
    <3>2. CASE m \notin InDir(p)
      BY <2>2, <3>2
    <3> QED
      BY <3>1, <3>2
  <2> QED
    BY <1>1, <1>5, <2>1, <2>4, QuietIInv DEF RemoveDir
<1>6. CASE RemoveDirKilled(i)
  <2>1. \A m \in Nodes : /\ stamp'[m] \in {0, stamp[m]}
                         /\ out'[m] = out[m] \/ out'[m] = "lost"
                         /\ seen'[m] = 0
    BY <1>6 DEF RemoveDirKilled, Stop
  <2> QED
    BY <1>1, <1>6, <2>1, QuietIInv DEF RemoveDirKilled, Stop
<1> QED
  BY <1>2, <1>3, <1>4, <1>5, <1>6

LEMMA Inductive == Spec => []IInv
<1>1. IInv /\ [Next]_vars => IInv'
  <2> SUFFICES ASSUME IInv, [Next]_vars PROVE IInv'
    OBVIOUS
  <2>1. CASE UNCHANGED vars
    <3>1. TypeOK'
      BY <2>1 DEF vars, IInv, TypeOK
    <3> QED
      BY <2>1, <3>1, QuietIInv DEF vars
  <2>2. ASSUME NEW n \in Nodes,
               Consider(n) \/ BeginRecipe(n) \/ EndRecipe(n) \/ FailRecipe(n)
        PROVE  IInv'
    BY <2>2, ConsiderIInv, BeginIInv, EndIInv, FailIInv
  <2> QED
    BY <2>1, <2>2, UserIInv, GoalIInv DEF Next, MakeStep
<1> QED
  BY <1>1, InitIInv, PTL DEF Spec

\* Wherever make was interrupted, whatever failed, however many recipes ran
\* side by side and whichever stamps were removed, a stamp that make trusts
\* stands for a completed step.
THEOREM StampsVouch == Spec => []TrustedMeansDone
<1>1. IInv => TrustedMeansDone
  BY DEF IInv
<1> QED
  BY <1>1, Inductive, PTL

\* An install step whose stamp is newer than that of the build has installed
\* what was built, from the same version of the sources.
THEOREM InstalledIsCurrent == Spec => []InstalledIsBuilt
<1>1. IInv => InstalledIsBuilt
  BY DEF IInv
<1> QED
  BY <1>1, Inductive, PTL

-----------------------------------------------------------------------------
(***************************************************************************)
(* The order of the steps, for goals that remove before they make.         *)
(***************************************************************************)
LEMMA BeforeFacts ==
    ASSUME NEW n \in Nodes
    PROVE  /\ Before[n] = Prereqs(n) \union OrderOnly(n)
           /\ Before[n] \subseteq Nodes
<1>1. n[1] \in Pkgs /\ Before[n] = Prereqs(n) \union OrderOnly(n)
  BY DEF Before, Nodes
<1>2. ASSUME NEW q \in Pkgs PROVE Installed(q) \subseteq Nodes /\ PatchTarget(q) \in Nodes
  BY <1>2, PkgConstants
  DEF Installed, PatchTarget, Nodes, StepsOf, Steps, InstallSteps, TarballSteps
<1>3. Deps[n[1]] \subseteq Pkgs /\ PatchDeps[n[1]] \subseteq Pkgs
  BY <1>1, PkgConstants
<1>4. n[1] \in Override => <<n[1], "rsynced">> \in Nodes
  BY <1>1 DEF Nodes, StepsOf, Steps
<1>5. CASE n[2] = "configured"
  <2>1. AllInstalled(Deps[n[1]]) \subseteq Nodes
    BY <1>2, <1>3 DEF AllInstalled
  <2>2. OrderOnly(n) \subseteq Nodes
    BY <1>4, <1>5, <2>1 DEF OrderOnly
  <2> QED
    BY <1>1, <2>2, PrereqsSamePackage
<1>6. CASE n[2] = "patched"
  <2>1. OrderOnly(n) = {PatchTarget(q) : q \in PatchDeps[n[1]]}
    BY <1>6 DEF OrderOnly
  <2> QED
    BY <1>1, <1>2, <1>3, <2>1, PrereqsSamePackage
<1>7. CASE n[2] \notin {"configured", "patched"}
  <2>1. OrderOnly(n) = {}
    BY <1>7 DEF OrderOnly
  <2> QED
    BY <1>1, <2>1, PrereqsSamePackage
<1> QED
  BY <1>5, <1>6, <1>7

\* Stamps, outputs and goals disappear while make has looked at nothing.
LEMMA OrderForgotten ==
    ASSUME IInv, OrderInv, TypeOK',
           running' \subseteq running, running' = {} \/ ~ok',
           todo' # {} => ok', ok' => cmd' \in Commands,
           \A m \in Nodes : seen'[m] = 0,
           \A m \in Nodes : stamp'[m] \in {0, stamp[m]},
           \A m \in Nodes : m \in running' => out'[m] = out[m],
           \A m \in Nodes : \/ out'[m] = out[m]
                            \/ out'[m] = "lost"
                            \/ out'[m] = "none" /\ stamp'[m] = 0
    PROVE  OrderInv'
<1>1. VisitedInOrder' /\ SeenIsMade'
  BY DEF VisitedInOrder, Visited, SeenIsMade
<1>2. RunningIsTorn'
  BY DEF OrderInv, RunningIsTorn, IInv, TypeOK
<1>3. TornIsStale'
  <2> SUFFICES ASSUME NEW n \in Nodes, out'[n] \notin {"done", "lost"}, stamp'[n] # 0
               PROVE  \E m \in Prereqs(n) : stamp'[m] = 0 \/ stamp'[m] > stamp'[n]
    BY PrereqsSamePackage DEF TornIsStale
  <2>1. out'[n] = out[n] /\ stamp'[n] = stamp[n]
    OBVIOUS
  <2>2. PICK m \in Prereqs(n) : IF seen[m] > 0 THEN seen[m] > stamp[n]
                                ELSE stamp[m] = 0 \/ stamp[m] > stamp[n]
    BY <2>1 DEF OrderInv, TornIsStale
  <2>3. m \in Nodes /\ stamp'[m] \in {0, stamp[m]}
    BY PrereqsSamePackage
  <2>4. seen[m] > 0 => stamp[m] \in {0, seen[m]}
    BY <2>3 DEF IInv, SeenIsStamp
  <2>5. stamp'[m] = 0 \/ stamp'[m] > stamp'[n]
    BY <2>1, <2>2, <2>3, <2>4
  <2> QED
    BY <2>5
<1> QED
  BY <1>1, <1>2, <1>3 DEF OrderInv

\* Stamps disappear, and goals, while make goes on.
LEMMA OrderGoesOn ==
    ASSUME IInv, OrderInv, TypeOK', UNCHANGED <<seen, running, out, cmd, ok>>,
           todo' \subseteq todo, \A m \in Nodes : stamp'[m] \in {0, stamp[m]}
    PROVE  OrderInv'
<1>1. VisitedInOrder' /\ SeenIsMade' /\ RunningIsTorn'
  BY DEF OrderInv, VisitedInOrder, Visited, SeenIsMade, RunningIsTorn
<1>2. TornIsStale'
  <2> SUFFICES ASSUME NEW n \in Nodes, out[n] \notin {"done", "lost"}, stamp'[n] # 0
               PROVE  \E m \in Prereqs(n) : IF seen[m] > 0 THEN seen[m] > stamp'[n]
                                            ELSE stamp'[m] = 0 \/ stamp'[m] > stamp'[n]
    BY DEF TornIsStale
  <2>1. stamp'[n] = stamp[n]
    OBVIOUS
  <2>2. PICK m \in Prereqs(n) : IF seen[m] > 0 THEN seen[m] > stamp[n]
                                ELSE stamp[m] = 0 \/ stamp[m] > stamp[n]
    BY <2>1 DEF OrderInv, TornIsStale
  <2>3. m \in Nodes /\ stamp'[m] \in {0, stamp[m]}
    BY PrereqsSamePackage
  <2> QED
    BY <2>1, <2>2, <2>3
<1> QED
  BY <1>1, <1>2 DEF OrderInv

\* What make can decide about is in a goal no other waits for.
LEMMA ReadyFacts ==
    ASSUME Jobs = 1, IInv, OrderInv, NEW n \in Nodes, Ready(n)
    PROVE  /\ ok /\ seen[n] = 0 /\ n \notin running
           /\ \A m \in Before[n] : seen[m] > 0
           /\ \E j \in DOMAIN cmd : cmd[j].op = "make" /\ \A i \in todo : j <= i
<1>1. PICK j \in todo : Reached(j) /\ cmd[j].op = "make"
  BY DEF Ready
<1>2. j \in DOMAIN cmd /\ DOMAIN cmd \subseteq Nat /\ todo \subseteq DOMAIN cmd
  BY <1>1 DEF IInv, TypeOK, Goals
<1>3. \A i \in todo : j <= i
  BY <1>1, <1>2 DEF Reached
<1>4. ok
  BY <1>1 DEF OrderInv
<1>5. seen[n] = 0 /\ n \notin running /\ \A m \in Before[n] : seen[m] > 0
  BY DEF Ready
<1> QED
  BY <1>1, <1>2, <1>3, <1>4, <1>5

LEMMA ConsiderOrder ==
    ASSUME Jobs = 1, IInv, OrderInv, NEW n \in Nodes, Consider(n)
    PROVE  OrderInv'
<1> USE DEF Consider, tree, makes
<1>1. /\ ok /\ seen[n] = 0 /\ n \notin running
      /\ \A m \in Before[n] : seen[m] > 0
      /\ \E j \in DOMAIN cmd : cmd[j].op = "make" /\ \A i \in todo : j <= i
  BY ReadyFacts
<1>2. seen'[n] = stamp[n] /\ \A m \in Nodes \ {n} : seen'[m] = seen[m]
  BY DEF IInv, TypeOK
<1>3. stamp[n] > 0 /\ \A m \in Prereqs(n) : seen[m] <= stamp[n]
  <2>1. stamp[n] \in Nat /\ \A m \in Prereqs(n) : seen[m] \in Nat
    BY PrereqsSamePackage DEF IInv, TypeOK
  <2> QED
    BY <2>1 DEF OutOfDate
<1>4. \A m \in Nodes : seen[m] > 0 => seen'[m] > 0
  BY <1>2, <1>3
<1>5. VisitedInOrder'
  <2> SUFFICES ASSUME NEW r \in Nodes, Visited(r)'
               PROVE  /\ \A m \in Before[r] : seen'[m] > 0
                      /\ \E j \in DOMAIN cmd : cmd[j].op = "make" /\ \A i \in todo : j <= i
    BY DEF VisitedInOrder
  <2>1. /\ \A m \in Before[r] : m \in Nodes /\ seen[m] > 0
        /\ \E j \in DOMAIN cmd : cmd[j].op = "make" /\ \A i \in todo : j <= i
    BY <1>1, <1>2, BeforeFacts DEF OrderInv, VisitedInOrder, Visited
  <2> QED
    BY <1>4, <2>1
<1>6. out[n] \in {"done", "lost"}
  <2>1. \A m \in Prereqs(n) : seen[m] > 0
    BY <1>1, BeforeFacts
  <2>2. \A m \in Prereqs(n) : ~(seen[m] > stamp[n])
    BY <1>3, PrereqsSamePackage DEF IInv, TypeOK
  <2> QED
    BY <1>3, <2>1, <2>2 DEF OrderInv, TornIsStale
<1>7. SeenIsMade' /\ RunningIsTorn'
  BY <1>2, <1>6 DEF OrderInv, SeenIsMade, RunningIsTorn
<1>8. TornIsStale'
  <2> SUFFICES ASSUME NEW r \in Nodes, out[r] \notin {"done", "lost"}, stamp[r] # 0
               PROVE  \E m \in Prereqs(r) : IF seen'[m] > 0 THEN seen'[m] > stamp[r]
                                            ELSE stamp[m] = 0 \/ stamp[m] > stamp[r]
    BY DEF TornIsStale
  <2>1. PICK m \in Prereqs(r) : IF seen[m] > 0 THEN seen[m] > stamp[r]
                                ELSE stamp[m] = 0 \/ stamp[m] > stamp[r]
    BY DEF OrderInv, TornIsStale
  <2>2. m \in Nodes
    BY PrereqsSamePackage
  <2> QED
    BY <1>1, <1>2, <1>3, <2>1, <2>2
<1> QED
  BY <1>5, <1>7, <1>8 DEF OrderInv

LEMMA BeginOrder ==
    ASSUME Jobs = 1, IInv, OrderInv, NEW n \in Nodes, BeginRecipe(n)
    PROVE  OrderInv'
<1> USE DEF BeginRecipe, makes
<1>1. /\ ok /\ seen[n] = 0 /\ n \notin running
      /\ \A m \in Before[n] : seen[m] > 0
      /\ \E j \in DOMAIN cmd : cmd[j].op = "make" /\ \A i \in todo : j <= i
  BY ReadyFacts
<1>2. out'[n] = "torn" /\ \A m \in Nodes \ {n} : out'[m] = out[m]
  BY DEF IInv, TypeOK
<1>3. VisitedInOrder'
  BY <1>1 DEF OrderInv, VisitedInOrder, Visited
<1>4. SeenIsMade' /\ RunningIsTorn'
  BY <1>1, <1>2 DEF OrderInv, SeenIsMade, RunningIsTorn, IInv, TypeOK
<1>5. TornIsStale'
  <2> SUFFICES ASSUME NEW r \in Nodes, out'[r] \notin {"done", "lost"}, stamp[r] # 0
               PROVE  \E m \in Prereqs(r) : IF seen[m] > 0 THEN seen[m] > stamp[r]
                                            ELSE stamp[m] = 0 \/ stamp[m] > stamp[r]
    BY DEF TornIsStale
  <2>1. CASE r = n
    BY <1>1, <2>1, BeforeFacts DEF OutOfDate
  <2>2. CASE r # n
    BY <1>2, <2>2 DEF OrderInv, TornIsStale
  <2> QED
    BY <2>1, <2>2
<1> QED
  BY <1>3, <1>4, <1>5 DEF OrderInv

LEMMA EndOrder ==
    ASSUME IInv, OrderInv, NEW n \in Nodes, EndRecipe(n)
    PROVE  OrderInv'
<1> USE DEF EndRecipe, makes
<1>1. /\ n \in running /\ now \in Nat
      /\ stamp'[n] = now + 1 /\ seen'[n] = now + 1 /\ out'[n] = "done"
      /\ \A m \in Nodes \ {n} : /\ stamp'[m] = stamp[m]
                                /\ seen'[m] = seen[m]
                                /\ out'[m] = out[m]
  BY DEF IInv, TypeOK
<1>2. VisitedInOrder'
  <2> SUFFICES ASSUME ok, NEW r \in Nodes, Visited(r)'
               PROVE  /\ \A m \in Before[r] : seen'[m] > 0
                      /\ \E j \in DOMAIN cmd : cmd[j].op = "make" /\ \A i \in todo : j <= i
    BY DEF VisitedInOrder
  <2>1. Visited(r)
    BY <1>1 DEF Visited
  <2>2. /\ \A m \in Before[r] : m \in Nodes /\ seen[m] > 0
        /\ \E j \in DOMAIN cmd : cmd[j].op = "make" /\ \A i \in todo : j <= i
    BY <2>1, BeforeFacts DEF OrderInv, VisitedInOrder
  <2> QED
    BY <1>1, <2>2
<1>3. SeenIsMade' /\ RunningIsTorn'
  BY <1>1 DEF OrderInv, SeenIsMade, RunningIsTorn, IInv, TypeOK
<1>4. TornIsStale'
  <2> SUFFICES ASSUME NEW r \in Nodes, out'[r] \notin {"done", "lost"}, stamp'[r] # 0
               PROVE  \E m \in Prereqs(r) : IF seen'[m] > 0 THEN seen'[m] > stamp'[r]
                                            ELSE stamp'[m] = 0 \/ stamp'[m] > stamp'[r]
    BY DEF TornIsStale
  <2>1. r # n /\ stamp'[r] = stamp[r] /\ out'[r] = out[r]
    BY <1>1
  <2>2. PICK m \in Prereqs(r) : IF seen[m] > 0 THEN seen[m] > stamp[r]
                                ELSE stamp[m] = 0 \/ stamp[m] > stamp[r]
    BY <2>1 DEF OrderInv, TornIsStale
  <2>3. m \in Nodes /\ stamp[r] <= now /\ stamp[r] \in Nat
    BY PrereqsSamePackage DEF IInv, StampsArePast, TypeOK
  <2> QED
    BY <1>1, <2>1, <2>2, <2>3
<1> QED
  BY <1>2, <1>3, <1>4 DEF OrderInv

\* A goal that removes comes before make has looked at anything.
LEMMA NothingVisited ==
    ASSUME Jobs = 1, MakesLast, IInv, OrderInv, NEW i \in todo, Reached(i), cmd[i].op # "make"
    PROVE  running = {} /\ \A n \in Nodes : seen[n] = 0
<1> SUFFICES ASSUME NEW n \in Nodes, Visited(n) PROVE FALSE
  BY DEF Visited, IInv, TypeOK
<1>1. ok /\ cmd \in Commands
  BY DEF OrderInv
<1>2. PICK j \in DOMAIN cmd : cmd[j].op = "make" /\ \A k \in todo : j <= k
  BY <1>1 DEF OrderInv, VisitedInOrder
<1>3. i \in DOMAIN cmd /\ DOMAIN cmd \subseteq Nat /\ j <= i /\ j # i
  BY <1>2 DEF IInv, TypeOK, Goals
<1>4. j < i
  BY <1>3
<1> QED
  BY <1>1, <1>2, <1>3, <1>4 DEF MakesLast

LEMMA OrderInit == Init => OrderInv
BY DEF Init, OrderInv, VisitedInOrder, SeenIsMade, RunningIsTorn, TornIsStale

LEMMA OrderUser ==
    ASSUME IInv, OrderInv, TypeOK',
           \/ Kill
           \/ \E c \in Commands : RunMake(c)
           \/ \E p \in Pkgs : Edit(p)
    PROVE  OrderInv'
<1> USE DEF tree, makes
<1>1. CASE Kill
  BY <1>1, OrderForgotten DEF Kill, Stop
<1>2. ASSUME NEW c \in Commands, RunMake(c)
      PROVE  OrderInv'
  BY <1>2, OrderForgotten DEF RunMake, Idle
<1>3. ASSUME NEW p \in Pkgs, Edit(p)
      PROVE  OrderInv'
  BY <1>3, OrderGoesOn DEF Edit
<1> QED
  BY <1>1, <1>2, <1>3

LEMMA OrderNode ==
    ASSUME Jobs = 1, IInv, OrderInv, NEW n \in Nodes,
           Consider(n) \/ BeginRecipe(n) \/ EndRecipe(n) \/ FailRecipe(n)
    PROVE  OrderInv'
<1>1. CASE FailRecipe(n)
  BY <1>1, OrderForgotten, TypeNode DEF FailRecipe, Stop, tree, IInv
<1> QED
  BY <1>1, ConsiderOrder, BeginOrder, EndOrder

LEMMA OrderGoal ==
    ASSUME Jobs = 1, MakesLast, IInv, OrderInv, NEW i \in todo,
           MakeDone(i) \/ RemoveStamp(i) \/ CleanDone(i) \/ RemoveDir(i) \/ RemoveDirKilled(i)
    PROVE  OrderInv'
<1> USE DEF tree, makes
<1>1. TypeOK'
  BY TypeGoal DEF IInv
<1>2. CASE MakeDone(i) \/ CleanDone(i)
  BY <1>1, <1>2, OrderGoesOn DEF MakeDone, CleanDone
<1>3. CASE RemoveStamp(i)
  <2>1. PICK k \in DOMAIN CleanOrder :
            stamp' = [stamp EXCEPT ![<<cmd[i].pkg, CleanOrder[k]>>] = 0]
    BY <1>3 DEF RemoveStamp, Present
  <2>2. \A m \in Nodes : stamp'[m] \in {0, stamp[m]}
    BY <2>1 DEF IInv, TypeOK
  <2> QED
    BY <1>1, <1>3, <2>2, OrderGoesOn DEF RemoveStamp
<1>4. CASE RemoveDir(i)
  <2> DEFINE p == cmd[i].pkg
  <2>1. running = {} /\ \A n \in Nodes : seen[n] = 0
    BY <1>4, NothingVisited DEF RemoveDir
  <2>2. \A m \in Nodes : stamp'[m] = IF m[1] = p THEN 0 ELSE stamp[m]
    BY <1>4 DEF RemoveDir
  <2>3. \A m \in Nodes : out'[m] = IF m \in InDir(p) THEN "none" ELSE out[m]
    BY <1>4 DEF RemoveDir
  <2>4. \A m \in InDir(p) : m[1] = p
    BY DEF InDir
  <2>5. \A m \in Nodes : out'[m] = out[m] \/ (out'[m] = "none" /\ stamp'[m] = 0)
    <3> SUFFICES ASSUME NEW m \in Nodes
                 PROVE  out'[m] = out[m] \/ (out'[m] = "none" /\ stamp'[m] = 0)
      OBVIOUS
    <3>1. CASE m \in InDir(p)
      BY <2>2, <2>3, <2>4, <3>1
    <3>2. CASE m \notin InDir(p)
      BY <2>3, <3>2
    <3> QED
      BY <3>1, <3>2
  <2>6. /\ UNCHANGED <<cmd, ok, seen, running>> /\ todo' \subseteq todo
    BY <1>4 DEF RemoveDir
  <2> QED
    BY <1>1, <2>1, <2>2, <2>5, <2>6, OrderForgotten DEF OrderInv
<1>5. CASE RemoveDirKilled(i)
  <2>1. \A m \in Nodes : /\ stamp'[m] \in {0, stamp[m]}
                         /\ out'[m] = out[m] \/ out'[m] = "lost"
                         /\ seen'[m] = 0
    BY <1>5 DEF RemoveDirKilled, Stop
  <2> QED
    BY <1>1, <1>5, <2>1, OrderForgotten DEF RemoveDirKilled, Stop
<1> QED
  BY <1>2, <1>3, <1>4, <1>5

LEMMA OrderKept ==
    ASSUME Jobs = 1, MakesLast, IInv, OrderInv, [Next]_vars
    PROVE  OrderInv'
<1>1. CASE UNCHANGED vars
  <2>1. TypeOK'
    BY <1>1 DEF vars, IInv, TypeOK
  <2> QED
    BY <1>1, <2>1, OrderGoesOn DEF vars
<1>2. ASSUME NEW n \in Nodes,
             Consider(n) \/ BeginRecipe(n) \/ EndRecipe(n) \/ FailRecipe(n)
      PROVE  OrderInv'
  BY <1>2, OrderNode
<1>3. CASE \/ Kill
           \/ \E c \in Commands : RunMake(c)
           \/ \E p \in Pkgs : Edit(p)
  BY <1>3, OrderUser, TypeUser DEF IInv
<1> QED
  BY <1>1, <1>2, <1>3, OrderGoal DEF Next, MakeStep

-----------------------------------------------------------------------------
(***************************************************************************)
(* The refinement: no step starts on an output that is not there.          *)
(***************************************************************************)
LEMMA Places ==
    /\ Place("downloaded") = 1 /\ Place("extracted") = 2 /\ Place("patched") = 3
    /\ Place("rsynced") = 3 /\ Place("configured") = 4 /\ Place("built") = 5
    /\ \A s \in InstallSteps : Place(s) = 6
BY DEF Place, InstallSteps

\* When all that comes before a step has been seen, so has all it uses.
LEMMA UsesAreSeen ==
    ASSUME OrderInv, ok, NEW n \in Nodes, \A m \in Before[n] : seen[m] > 0
    PROVE  \A m \in Uses[n] : m \in Nodes /\ seen[m] > 0
<1> DEFINE p == n[1]
           B(s) == <<p, s>> \in Nodes /\ \A m \in Before[<<p, s>>] : seen[m] > 0
           S(s) == <<p, s>> \in Nodes => seen[<<p, s>>] > 0 /\ B(s)
           Deps_seen == \A m \in AllInstalled(Deps[p]) : m \in Nodes /\ seen[m] > 0
<1>1. /\ n = <<p, n[2]>> /\ p \in Pkgs /\ n[2] \in StepsOf(p) /\ n[2] \in Steps
      /\ \A s : <<p, s>> \in Nodes <=> s \in StepsOf(p) /\ s \in Steps
  BY DEF Nodes
<1>2. \A r \in Nodes : seen[r] > 0 => \A m \in Before[r] : seen[m] > 0
  BY DEF OrderInv, VisitedInOrder, Visited
<1>3. ASSUME NEW s, B(s), NEW t, <<p, t>> \in Nodes, <<t, s>> \in Precedes
      PROVE  S(t)
  <2>1. <<p, t>> \in Prereqs(<<p, s>>)
    BY <1>1, <1>3 DEF Prereqs, PrereqSteps
  <2> QED
    BY <1>2, <1>3, <2>1, BeforeFacts
<1>4. B("extracted") => S("downloaded")
  BY <1>3 DEF Precedes
<1>5. B("patched") => S("extracted") /\ S("downloaded")
  <2>1. B("patched") => S("extracted")
    BY <1>3 DEF Precedes
  <2>2. B("patched") => <<p, "extracted">> \in Nodes
    BY <1>1, PkgConstants DEF StepsOf, TarballSteps, InstallSteps, Steps
  <2> QED
    BY <1>4, <2>1, <2>2
<1>6. ASSUME B("configured")
      PROVE  /\ S("patched") /\ S("extracted") /\ S("downloaded") /\ S("rsynced")
             /\ Deps_seen
  <2>1. S("patched")
    BY <1>3, <1>6 DEF Precedes
  <2>2. S("extracted") /\ S("downloaded")
    <3>1. CASE <<p, "patched">> \in Nodes
      BY <1>5, <2>1, <3>1
    <3>2. CASE <<p, "patched">> \notin Nodes
      BY <1>1, <3>2, PkgConstants DEF StepsOf, TarballSteps, InstallSteps, Steps
    <3> QED
      BY <3>1, <3>2
  <2>3. Before[<<p, "configured">>] = Prereqs(<<p, "configured">>) \union OrderOnly(<<p, "configured">>)
    BY <1>6, BeforeFacts
  <2>4. <<p, "rsynced">> \in Nodes => p \in Override
    BY <1>1, PkgConstants DEF StepsOf, TarballSteps, InstallSteps, Steps
  <2>5. p \in Override => <<p, "rsynced">> \in OrderOnly(<<p, "configured">>)
    BY DEF OrderOnly
  <2>6. S("rsynced")
    BY <1>2, <1>6, <2>3, <2>4, <2>5
  <2>7. AllInstalled(Deps[p]) \subseteq OrderOnly(<<p, "configured">>)
    BY DEF OrderOnly
  <2>8. Deps_seen
    BY <1>6, <2>3, <2>7, BeforeFacts
  <2> QED
    BY <2>1, <2>2, <2>6, <2>8
<1>7. <<p, "configured">> \in Nodes /\ <<p, "built">> \in Nodes
  BY <1>1 DEF StepsOf, Steps
<1>8. ASSUME B("built")
      PROVE  /\ S("configured") /\ S("patched") /\ S("extracted") /\ S("downloaded")
             /\ S("rsynced") /\ Deps_seen
  <2>1. S("configured")
    BY <1>3, <1>7, <1>8 DEF Precedes
  <2> QED
    BY <1>6, <1>7, <2>1
<1>9. ASSUME NEW s \in InstallSteps, B(s)
      PROVE  /\ S("built") /\ S("configured") /\ S("patched") /\ S("extracted")
             /\ S("downloaded") /\ S("rsynced")
  <2>1. <<"built", s>> \in Precedes
    BY DEF Precedes, InstallSteps
  <2>2. S("built")
    BY <1>3, <1>7, <1>9, <2>1
  <2> QED
    BY <1>7, <1>8, <2>2
<1>10. B(n[2])
  BY <1>1
<1>11. ASSUME NEW m \in Nodes, m[1] = p, Place(m[2]) < Place(n[2])
       PROVE  seen[m] > 0
  <2>1. m = <<p, m[2]>> /\ m[2] \in Steps
    BY <1>11 DEF Nodes
  <2> HIDE DEF B, S
  <2>2. S(m[2])
    <3>1. CASE n[2] \in InstallSteps
      <4>1. m[2] \in {"built", "configured", "patched", "extracted", "downloaded", "rsynced"}
        BY <1>11, <2>1, <3>1, Places DEF Steps, TarballSteps
      <4> QED
        BY <1>9, <1>10, <3>1, <4>1
    <3>2. CASE n[2] = "built"
      <4>1. m[2] \in {"configured", "patched", "extracted", "downloaded", "rsynced"}
        BY <1>11, <2>1, <3>2, Places DEF Steps, TarballSteps
      <4> QED
        BY <1>8, <1>10, <3>2, <4>1
    <3>3. CASE n[2] = "configured"
      <4>1. m[2] \in {"patched", "extracted", "downloaded", "rsynced"}
        BY <1>11, <2>1, <3>3, Places DEF Steps, TarballSteps
      <4> QED
        BY <1>6, <1>10, <3>3, <4>1
    <3>4. CASE n[2] = "patched"
      <4>1. m[2] \in {"extracted", "downloaded"}
        BY <1>11, <2>1, <3>4, Places DEF Steps, TarballSteps
      <4> QED
        BY <1>5, <1>10, <3>4, <4>1
    <3>5. CASE n[2] = "extracted"
      <4>1. m[2] = "downloaded"
        BY <1>11, <2>1, <3>5, Places DEF Steps, TarballSteps
      <4> QED
        BY <1>4, <1>10, <3>5, <4>1
    <3>6. CASE n[2] = "downloaded"
      BY <1>11, <2>1, <3>6, Places DEF Steps, TarballSteps
    <3>7. CASE n[2] = "rsynced"
      <4>1. m[2] \in {"extracted", "downloaded"}
        BY <1>11, <2>1, <3>7, Places DEF Steps, TarballSteps
      <4> QED
        BY <1>1, <1>11, <2>1, <3>7, <4>1, PkgConstants
        DEF StepsOf, TarballSteps, InstallSteps
    <3> QED
      BY <1>1, <3>1, <3>2, <3>3, <3>4, <3>5, <3>6, <3>7 DEF Steps, TarballSteps
  <2> QED
    BY <1>11, <2>1, <2>2 DEF S
<1>12. ASSUME n[2] \in {"configured", "built"} PROVE Deps_seen
  BY <1>6, <1>8, <1>10, <1>12
<1>13. ASSUME NEW q \in PatchDeps[p], n[2] = "patched"
       PROVE  PatchTarget(q) \in Nodes /\ seen[PatchTarget(q)] > 0
  <2>1. PatchTarget(q) \in OrderOnly(n)
    BY <1>13 DEF OrderOnly
  <2> QED
    BY <2>1, BeforeFacts
<1> QED
  <2> SUFFICES ASSUME NEW m \in Uses[n] PROVE m \in Nodes /\ seen[m] > 0
    OBVIOUS
  <2>1. \/ m \in Nodes /\ m[1] = p /\ Place(m[2]) < Place(n[2])
        \/ n[2] \in {"configured", "built"} /\ m \in AllInstalled(Deps[p])
        \/ n[2] = "patched" /\ \E q \in PatchDeps[p] : m = PatchTarget(q)
    BY DEF Uses
  <2> QED
    BY <1>11, <1>12, <1>13, <2>1

\* What each step of make does to the outputs.
LEMMA StepRefines ==
    ASSUME Jobs = 1, IInv, OrderInv, [Next]_vars
    PROVE  [Order!Next]_out
<1> USE DEF tree, makes
<1>1. ASSUME NEW n \in Nodes, BeginRecipe(n)
      PROVE  Order!Begin(n)
  <2>1. \A m \in Uses[n] : m \in Nodes /\ seen[m] > 0
    BY <1>1, ReadyFacts, UsesAreSeen DEF BeginRecipe
  <2>2. \A m \in Uses[n] : out[m] \in {"done", "lost"}
    BY <2>1 DEF OrderInv, SeenIsMade
  <2> QED
    BY <1>1, <2>2 DEF BeginRecipe, Order!Begin
<1>2. ASSUME NEW n \in Nodes, EndRecipe(n)
      PROVE  Order!Complete(n)
  BY <1>2 DEF EndRecipe, OrderInv, RunningIsTorn, Order!Complete
<1>3. ASSUME NEW i \in todo, RemoveDir(i)
      PROVE  Order!Remove("none")
  <2>1. out' = [m \in Nodes |-> IF m \in InDir(cmd[i].pkg) THEN "none" ELSE out[m]]
    BY <1>3 DEF RemoveDir
  <2> QED
    BY <2>1 DEF Order!Remove
<1>4. ASSUME NEW i \in todo, RemoveDirKilled(i)
      PROVE  Order!Remove("lost")
  <2>1. out' = [m \in Nodes |-> IF m \in InDir(cmd[i].pkg) /\ out[m] # "none"
                                THEN "lost" ELSE out[m]]
    BY <1>4 DEF RemoveDirKilled
  <2> QED
    BY <2>1 DEF Order!Remove
<1>5. ASSUME NEW n \in Nodes, Consider(n) \/ FailRecipe(n)
      PROVE  UNCHANGED out
  BY <1>5 DEF Consider, FailRecipe
<1>6. ASSUME NEW i \in todo, MakeDone(i) \/ RemoveStamp(i) \/ CleanDone(i)
      PROVE  UNCHANGED out
  BY <1>6 DEF MakeDone, RemoveStamp, CleanDone
<1>7. CASE \/ Kill
           \/ \E c \in Commands : RunMake(c)
           \/ \E p \in Pkgs : Edit(p)
  BY <1>7 DEF Kill, RunMake, Edit
<1>8. CASE UNCHANGED vars
  BY <1>8 DEF vars
<1> QED
  BY <1>1, <1>2, <1>3, <1>4, <1>5, <1>6, <1>7, <1>8 DEF Next, MakeStep, Order!Next

\* When every goal list removes before it makes, and make runs one recipe at a
\* time, as the Makefile has it, no step starts on the output of a step, of its
\* own package or of a dependency, that is missing or incomplete: whatever
\* failed or was interrupted before, and whatever stamps were removed.
THEOREM StepsInOrder ==
    ASSUME Jobs = 1, MakesLast
    PROVE  Spec => OrderSpec
<1>1. Init => Order!Init
  BY DEF Init, Order!Init
<1>2. IInv /\ OrderInv /\ [Next]_vars => OrderInv'
  BY OrderKept
<1>3. IInv /\ OrderInv /\ [Next]_vars => [Order!Next]_out
  BY StepRefines
<1> QED
  BY <1>1, <1>2, <1>3, OrderInit, Inductive, PTL DEF Spec, OrderSpec, Order!Spec

-----------------------------------------------------------------------------
(***************************************************************************)
(* What a run of make that was asked to rebuild a package achieves.        *)
(***************************************************************************)
\* Make visits what a package installs, and what comes before what it visits.
LEMMA NeededFacts ==
    ASSUME NEW p \in Pkgs
    PROVE  Needed[p] \subseteq Nodes /\ IsNeeded(p, Needed[p])
<1> DEFINE Least(S) == /\ IsNeeded(p, S)
                       /\ \A T \in SUBSET Nodes : IsNeeded(p, T) => S \subseteq T
           L == {n \in Nodes : \A T \in SUBSET Nodes : IsNeeded(p, T) => n \in T}
<1>1. Installed(p) \subseteq Nodes
  BY PkgConstants DEF Installed, Nodes, StepsOf, Steps
<1>2. Installed(p) \subseteq L
  BY <1>1 DEF IsNeeded
<1>3. ASSUME NEW n \in L PROVE Before[n] \subseteq L
  BY BeforeFacts DEF IsNeeded
<1>4. Least(L)
  BY <1>2, <1>3 DEF IsNeeded
<1>5. L \in SUBSET Nodes
  OBVIOUS
<1>6. Needed[p] = CHOOSE S \in SUBSET Nodes : Least(S)
  BY DEF Needed
<1> HIDE DEF L, Least
<1>7. Needed[p] \in SUBSET Nodes /\ Least(Needed[p])
  BY <1>4, <1>5, <1>6
<1> QED
  BY <1>7 DEF Least

\* Once make has looked at a step, the goals that remove are dealt with.
LEMMA CleansAreDone ==
    ASSUME MakesLast, IInv, OrderInv, ok,
           \E j \in DOMAIN cmd : cmd[j].op = "make" /\ \A i \in todo : j <= i,
           NEW k \in DOMAIN cmd, cmd[k].op = "clean"
    PROVE  k \in DOMAIN cmd \ todo
<1> SUFFICES ASSUME k \in todo PROVE FALSE
  OBVIOUS
<1>1. PICK j \in DOMAIN cmd : cmd[j].op = "make" /\ \A i \in todo : j <= i
  OBVIOUS
<1>2. cmd \in Commands /\ DOMAIN cmd \subseteq Nat
  BY DEF OrderInv, IInv, TypeOK, Goals
<1>3. j < k
  BY <1>1, <1>2
<1> QED
  BY <1>1, <1>2, <1>3 DEF MakesLast

\* What a goal list to rebuild p has in it.
LEMMA RebuildParts ==
    ASSUME RebuildGoals, IInv, OrderInv, ok, NEW p \in Pkgs, Rebuilds(cmd, p)
    PROVE  /\ Installs[p] # {}
           /\ \E i \in DOMAIN cmd : /\ cmd[i].op = "clean" /\ cmd[i].pkg = p
                                    /\ cmd[i].steps = {"built"}
           /\ \E i \in DOMAIN cmd : /\ cmd[i].op = "clean" /\ cmd[i].pkg = p
                                    /\ InstallSteps \subseteq cmd[i].steps
                                    /\ p \in Override => "rsynced" \in cmd[i].steps
           /\ \E i \in DOMAIN cmd : cmd[i].op = "make" /\ cmd[i].pkg = p
<1>1. cmd \in Commands
  BY DEF OrderInv
<1>2. /\ Installs[p] # {}
      /\ \E i \in DOMAIN cmd : cmd[i] = CleanForReinstall(p)
      /\ \E i \in DOMAIN cmd : cmd[i] = Make(p)
  BY <1>1 DEF RebuildGoals
<1> QED
  BY <1>2 DEF Rebuilds, CleanForReinstall, Clean, Make

\* A recipe that begins is given sources as recent as those make began with.
LEMMA BeginsFromAsked ==
    ASSUME Jobs = 1, MakesLast, RebuildGoals, IInv, OrderInv, RebuildInv,
           NEW n \in Nodes, Ready(n),
           n[2] = "rsynced" \/ (Rebuilds(cmd, n[1]) /\ n[2] \in {"built"} \union InstallSteps)
    PROVE  VersionFor(n) >= asked[n[1]]
<1> DEFINE p == n[1]
<1>1. /\ ok
      /\ \A m \in Before[n] : seen[m] > 0
      /\ \E j \in DOMAIN cmd : cmd[j].op = "make" /\ \A i \in todo : j <= i
  BY ReadyFacts
<1>2. /\ n = <<p, n[2]>> /\ p \in Pkgs /\ asked[p] <= src[p]
      /\ asked[p] \in Nat /\ src[p] \in Nat
  BY <1>1 DEF Nodes, RebuildInv, IInv, TypeOK
<1>3. CASE n[2] = "rsynced"
  BY <1>2, <1>3 DEF VersionFor, InstallSteps
<1>4. CASE Rebuilds(cmd, p) /\ n[2] = "built" /\ p \notin Override
  BY <1>2, <1>4 DEF VersionFor, InstallSteps
<1>5. CASE Rebuilds(cmd, p) /\ n[2] = "built" /\ p \in Override
  <2> DEFINE r == <<p, "rsynced">>
  <2>1. r \in Nodes
    BY <1>2, <1>5 DEF Nodes, StepsOf, Steps
  <2>2. seen[r] > 0
    <3>1. r \in Uses[n]
      BY <1>5, <2>1, Places DEF Uses
    <3> QED
      BY <1>1, <3>1, UsesAreSeen
  <2>3. PICK i \in DOMAIN cmd : /\ cmd[i].op = "clean" /\ cmd[i].pkg = p
                                /\ p \in Override => "rsynced" \in cmd[i].steps
    BY <1>1, <1>2, <1>5, RebuildParts
  <2>4. i \in DOMAIN cmd \ todo
    BY <1>1, <2>3, CleansAreDone
  <2>5. "rsynced" \in cmd[i].steps \ TarballSteps
    BY <1>5, <2>3 DEF TarballSteps
  <2>6. r \in ran
    BY <1>1, <2>1, <2>2, <2>3, <2>4, <2>5 DEF RebuildInv, CleanedIsRun
  <2>7. ver[r] >= asked[p]
    BY <1>1, <2>6 DEF RebuildInv, MadeFromAsked
  <2> QED
    BY <1>5, <2>7 DEF VersionFor, InstallSteps
<1>6. CASE Rebuilds(cmd, p) /\ n[2] \in InstallSteps
  <2> DEFINE b == <<p, "built">>
  <2>1. b \in Nodes /\ seen[b] > 0
    BY <1>1, <1>6, InstallNeedsBuilt, BeforeFacts
  <2>2. PICK i \in DOMAIN cmd : /\ cmd[i].op = "clean" /\ cmd[i].pkg = p
                                /\ cmd[i].steps = {"built"}
    BY <1>1, <1>2, <1>6, RebuildParts
  <2>3. i \in DOMAIN cmd \ todo
    BY <1>1, <2>2, CleansAreDone
  <2>4. "built" \in cmd[i].steps \ TarballSteps
    BY <2>2 DEF TarballSteps
  <2>5. b \in ran
    BY <1>1, <2>1, <2>2, <2>3, <2>4 DEF RebuildInv, CleanedIsRun
  <2>6. ver[b] >= asked[p]
    BY <1>1, <1>6, <2>5 DEF RebuildInv, MadeFromAsked
  <2> QED
    BY <1>6, <2>6 DEF VersionFor
<1> QED
  BY <1>3, <1>4, <1>5, <1>6

\* Stamps disappear and goals are dealt with, while the rest stays.
LEMMA RebuildGoesOn ==
    ASSUME IInv, RebuildInv, TypeOK', UNCHANGED <<seen, running, ran, ver, src, cmd, asked, ok>>,
           \A m \in Nodes : stamp'[m] \in {0, stamp[m]},
           \A i \in DOMAIN cmd : i \notin todo' => i \notin todo \/ cmd[i].op = "dirclean"
    PROVE  RebuildInv'
<1> SUFFICES ASSUME ok PROVE RebuildInv'
  BY DEF RebuildInv
<1>1. \A m \in Nodes : stamp'[m] > 0 => stamp[m] > 0
  OBVIOUS
<1>2. \A i \in DOMAIN cmd \ todo' : cmd[i].op # "dirclean" => i \in DOMAIN cmd \ todo
  OBVIOUS
<1>3. CleanedIsRun'
  BY <1>1, <1>2 DEF RebuildInv, CleanedIsRun
<1>4. MadeIsSeen'
  BY <1>2 DEF RebuildInv, MadeIsSeen
<1>5. MadeFromAsked'
  BY DEF RebuildInv, MadeFromAsked
<1> QED
  BY <1>3, <1>4, <1>5 DEF RebuildInv

\* What make has looked at for a goal that is dealt with stays looked at.
LEMMA MadeStaysSeen ==
    ASSUME TypeOK, MadeIsSeen, UNCHANGED <<cmd, todo>>,
           \A m \in Nodes : seen[m] > 0 => seen'[m] > 0
    PROVE  MadeIsSeen'
<1> SUFFICES ASSUME NEW i \in DOMAIN cmd \ todo, cmd[i].op = "make"
             PROVE  \A m \in Needed[cmd[i].pkg] : seen'[m] > 0
  BY DEF MadeIsSeen
<1>1. cmd[i] \in Goals
  BY DEF TypeOK
<1>2. cmd[i].pkg \in Pkgs
  BY <1>1 DEF Goals
<1>3. Needed[cmd[i].pkg] \subseteq Nodes
  BY <1>2, NeededFacts
<1> QED
  BY <1>3 DEF MadeIsSeen

LEMMA ConsiderRebuild ==
    ASSUME IInv, RebuildInv, NEW n \in Nodes, Consider(n), ok
    PROVE  RebuildInv'
<1> USE DEF Consider, tree, makes
<1>1. seen[n] = 0 /\ seen'[n] = stamp[n] /\ \A m \in Nodes \ {n} : seen'[m] = seen[m]
  BY DEF Ready, IInv, TypeOK
<1>2. stamp[n] > 0
  BY DEF OutOfDate, IInv, TypeOK
<1>3. \A m \in Nodes : seen[m] > 0 => seen'[m] > 0
  BY <1>1, <1>2
<1>4. CleanedIsRun'
  <2> SUFFICES ASSUME NEW i \in DOMAIN cmd \ todo, cmd[i].op = "clean", NEW m \in Nodes,
                      m[1] = cmd[i].pkg, m[2] \in cmd[i].steps \ TarballSteps,
                      stamp[m] > 0 \/ seen'[m] > 0
               PROVE  m \in ran
    BY DEF CleanedIsRun
  <2>1. stamp[m] > 0 \/ seen[m] > 0
    BY <1>1, <1>2
  <2> QED
    BY <2>1 DEF RebuildInv, CleanedIsRun
<1>5. MadeIsSeen'
  BY <1>3, MadeStaysSeen DEF RebuildInv, IInv
<1>6. MadeFromAsked'
  BY DEF RebuildInv, MadeFromAsked
<1>7. \A m \in ran : seen'[m] > 0
  BY <1>3 DEF RebuildInv, IInv, TypeOK
<1> QED
  BY <1>4, <1>5, <1>6, <1>7 DEF RebuildInv

LEMMA BeginRebuild ==
    ASSUME Jobs = 1, MakesLast, RebuildGoals, IInv, OrderInv, RebuildInv,
           NEW n \in Nodes, BeginRecipe(n), ok
    PROVE  RebuildInv'
<1> USE DEF BeginRecipe, makes
<1>1. ver'[n] = VersionFor(n) /\ \A m \in Nodes \ {n} : ver'[m] = ver[m]
  BY DEF IInv, TypeOK
<1>2. n \notin ran /\ n \notin running /\ ran \subseteq Nodes /\ running \subseteq Nodes
  BY ReadyFacts DEF RebuildInv, IInv, TypeOK
<1>3. CleanedIsRun' /\ MadeIsSeen'
  BY DEF RebuildInv, CleanedIsRun, MadeIsSeen
<1>4. MadeFromAsked'
  <2> SUFFICES ASSUME NEW m \in ran \union running \union {n},
                      m[2] = "rsynced" \/ (Rebuilds(cmd, m[1]) /\ m[2] \in {"built"} \union InstallSteps)
               PROVE  ver'[m] >= asked[m[1]]
    BY DEF MadeFromAsked
  <2>1. CASE m = n
    BY <1>1, <2>1, BeginsFromAsked
  <2>2. CASE m # n
    BY <1>1, <1>2, <2>2 DEF RebuildInv, MadeFromAsked
  <2> QED
    BY <2>1, <2>2
<1> QED
  BY <1>3, <1>4 DEF RebuildInv

LEMMA EndRebuild ==
    ASSUME IInv, RebuildInv, NEW n \in Nodes, EndRecipe(n), ok
    PROVE  RebuildInv'
<1> USE DEF EndRecipe, makes
<1>1. /\ n \in running /\ now \in Nat /\ seen'[n] = now + 1
      /\ \A m \in Nodes \ {n} : stamp'[m] = stamp[m] /\ seen'[m] = seen[m]
  BY DEF IInv, TypeOK
<1>2. \A m \in Nodes : seen[m] > 0 => seen'[m] > 0
  BY <1>1
<1>3. CleanedIsRun'
  <2> SUFFICES ASSUME NEW i \in DOMAIN cmd \ todo, cmd[i].op = "clean", NEW m \in Nodes,
                      m[1] = cmd[i].pkg, m[2] \in cmd[i].steps \ TarballSteps,
                      stamp'[m] > 0 \/ seen'[m] > 0, m # n
               PROVE  m \in ran
    BY DEF CleanedIsRun
  <2>1. stamp[m] > 0 \/ seen[m] > 0
    BY <1>1
  <2> QED
    BY <2>1 DEF RebuildInv, CleanedIsRun
<1>4. MadeIsSeen'
  BY <1>2, MadeStaysSeen DEF RebuildInv, IInv
<1>5. MadeFromAsked'
  BY <1>1 DEF RebuildInv, MadeFromAsked
<1>6. \A m \in ran' : seen'[m] > 0
  BY <1>1, <1>2 DEF RebuildInv, IInv, TypeOK
<1> QED
  BY <1>3, <1>4, <1>5, <1>6 DEF RebuildInv

\* A goal that removes leaves nothing to be taken for the result of this run.
LEMMA CleanRebuild ==
    ASSUME Jobs = 1, MakesLast, IInv, OrderInv, RebuildInv, NEW i \in todo, CleanDone(i)
    PROVE  RebuildInv'
<1> USE DEF CleanDone, tree, makes
<1> SUFFICES ASSUME ok PROVE RebuildInv'
  BY DEF RebuildInv
<1>1. \A n \in Nodes : seen[n] = 0
  BY NothingVisited
<1>2. ASSUME NEW n \in Nodes, n[1] = cmd[i].pkg, n[2] \in cmd[i].steps \ TarballSteps
      PROVE  ~(stamp[n] > 0)
  <2>1. n = <<cmd[i].pkg, n[2]>> /\ n[2] \in Steps \ TarballSteps
    BY <1>2 DEF Nodes
  <2>2. PICK k \in DOMAIN CleanOrder : CleanOrder[k] = n[2]
    <3>1. CASE n[2] = "rsynced"
      BY <3>1 DEF CleanOrder
    <3>2. CASE n[2] \in InstallSteps
      BY <3>2 DEF CleanOrder, InstallSteps
    <3>3. CASE n[2] \in {"built", "configured"}
      BY <3>3 DEF CleanOrder
    <3> QED
      BY <2>1, <3>1, <3>2, <3>3 DEF Steps
  <2> QED
    BY <1>2, <2>1, <2>2 DEF Present
<1>3. CleanedIsRun'
  <2> SUFFICES ASSUME NEW j \in DOMAIN cmd \ (todo \ {i}), cmd[j].op = "clean", NEW m \in Nodes,
                      m[1] = cmd[j].pkg, m[2] \in cmd[j].steps \ TarballSteps,
                      stamp[m] > 0 \/ seen[m] > 0
               PROVE  m \in ran
    BY DEF CleanedIsRun
  <2>1. CASE j = i
    BY <1>1, <1>2, <2>1
  <2>2. CASE j # i
    BY <2>2 DEF RebuildInv, CleanedIsRun
  <2> QED
    BY <2>1, <2>2
<1>4. MadeIsSeen' /\ MadeFromAsked'
  BY DEF RebuildInv, MadeIsSeen, MadeFromAsked
<1> QED
  BY <1>3, <1>4 DEF RebuildInv

LEMMA MadeRebuild ==
    ASSUME IInv, RebuildInv, NEW i \in todo, MakeDone(i)
    PROVE  RebuildInv'
<1> USE DEF MakeDone, tree, makes
<1>1. CleanedIsRun' <=> CleanedIsRun
  BY DEF CleanedIsRun
<1>2. MadeIsSeen => MadeIsSeen'
  BY DEF MadeIsSeen
<1>3. MadeFromAsked => MadeFromAsked'
  BY DEF MadeFromAsked
<1> QED
  BY <1>1, <1>2, <1>3 DEF RebuildInv

LEMMA RebuildInit == Init => RebuildInv
BY DEF Init, RebuildInv

LEMMA RebuildNode ==
    ASSUME Jobs = 1, MakesLast, RebuildGoals, IInv, OrderInv, RebuildInv, NEW n \in Nodes,
           Consider(n) \/ BeginRecipe(n) \/ EndRecipe(n) \/ FailRecipe(n)
    PROVE  RebuildInv'
<1>1. CASE ok
  <2>1. CASE FailRecipe(n)
    BY <2>1 DEF FailRecipe, Stop, RebuildInv
  <2> QED
    BY <1>1, <2>1, ConsiderRebuild, BeginRebuild, EndRebuild
<1>2. CASE ~ok
  <2>1. ~ok'
    BY <1>2 DEF Consider, BeginRecipe, EndRecipe, FailRecipe, Stop
  <2> QED
    BY <2>1 DEF RebuildInv
<1> QED
  BY <1>1, <1>2

LEMMA RebuildGoal ==
    ASSUME Jobs = 1, MakesLast, IInv, OrderInv, RebuildInv, NEW i \in todo,
           MakeDone(i) \/ RemoveStamp(i) \/ CleanDone(i) \/ RemoveDir(i) \/ RemoveDirKilled(i)
    PROVE  RebuildInv'
<1> USE DEF tree, makes
<1>1. TypeOK'
  BY TypeGoal DEF IInv
<1>2. CASE RemoveStamp(i)
  <2>1. PICK k \in DOMAIN CleanOrder :
            stamp' = [stamp EXCEPT ![<<cmd[i].pkg, CleanOrder[k]>>] = 0]
    BY <1>2 DEF RemoveStamp, Present
  <2>2. \A m \in Nodes : stamp'[m] \in {0, stamp[m]}
    BY <2>1 DEF IInv, TypeOK
  <2> QED
    BY <1>1, <1>2, <2>2, RebuildGoesOn DEF RemoveStamp
<1>3. CASE RemoveDir(i)
  <2>1. \A m \in Nodes : stamp'[m] \in {0, stamp[m]}
    BY <1>3 DEF RemoveDir
  <2> QED
    BY <1>1, <1>3, <2>1, RebuildGoesOn DEF RemoveDir
<1>4. CASE RemoveDirKilled(i)
  BY <1>4 DEF RemoveDirKilled, Stop, RebuildInv
<1> QED
  BY <1>2, <1>3, <1>4, CleanRebuild, MadeRebuild

LEMMA RebuildUser ==
    ASSUME IInv, RebuildInv,
           \/ Kill
           \/ \E c \in Commands : RunMake(c)
           \/ \E p \in Pkgs : Edit(p)
    PROVE  RebuildInv'
<1> USE DEF tree, makes
<1>1. CASE Kill
  BY <1>1 DEF Kill, Stop, RebuildInv
<1>2. ASSUME NEW c \in Commands, RunMake(c)
      PROVE  RebuildInv'
  <2>1. CleanedIsRun' /\ MadeIsSeen' /\ MadeFromAsked'
    BY <1>2 DEF RunMake, Idle, CleanedIsRun, MadeIsSeen, MadeFromAsked
  <2>2. ran' = {} /\ \A p \in Pkgs : asked'[p] <= src'[p]
    BY <1>2 DEF RunMake, IInv, TypeOK
  <2> QED
    BY <2>1, <2>2 DEF RebuildInv
<1>3. ASSUME NEW p \in Pkgs, Edit(p)
      PROVE  RebuildInv'
  <2> SUFFICES ASSUME ok PROVE RebuildInv'
    BY <1>3 DEF Edit, RebuildInv
  <2>1. \A q \in Pkgs : asked[q] <= src[q] /\ asked[q] \in Nat /\ src[q] \in Nat
    BY DEF RebuildInv, IInv, TypeOK
  <2>2. \A q \in Pkgs : asked[q] <= src'[q]
    BY <1>3, <2>1 DEF Edit, IInv, TypeOK
  <2>3. CleanedIsRun' /\ MadeIsSeen' /\ MadeFromAsked'
    BY <1>3 DEF Edit, RebuildInv, CleanedIsRun, MadeIsSeen, MadeFromAsked
  <2> QED
    BY <1>3, <2>2, <2>3 DEF Edit, RebuildInv
<1> QED
  BY <1>1, <1>2, <1>3

LEMMA RebuildKept ==
    ASSUME Jobs = 1, MakesLast, RebuildGoals, IInv, OrderInv, RebuildInv, [Next]_vars
    PROVE  RebuildInv'
<1>1. CASE UNCHANGED vars
  <2>1. TypeOK'
    BY <1>1 DEF vars, IInv, TypeOK
  <2> QED
    BY <1>1, <2>1, RebuildGoesOn DEF vars, IInv, TypeOK
<1>2. ASSUME NEW n \in Nodes,
             Consider(n) \/ BeginRecipe(n) \/ EndRecipe(n) \/ FailRecipe(n)
      PROVE  RebuildInv'
  BY <1>2, RebuildNode
<1> QED
  BY <1>1, <1>2, RebuildUser, RebuildGoal DEF Next, MakeStep

\* All goals are dealt with: the steps of a rebuilt package are those of this run.
LEMMA RebuildDone ==
    ASSUME RebuildGoals, IInv, OrderInv, RebuildInv
    PROVE  RebuildTakesEffect
<1> SUFFICES ASSUME Idle, ok, NEW i \in DOMAIN cmd,
                    cmd[i].op = "clean", cmd[i].steps = {"built"},
                    NEW n \in {<<cmd[i].pkg, "built">>} \union Installed(cmd[i].pkg)
             PROVE  n \in ran /\ ver[n] >= asked[cmd[i].pkg]
  BY DEF RebuildTakesEffect
<1> DEFINE p == cmd[i].pkg
           b == <<p, "built">>
<1>1. cmd[i] \in Goals /\ todo = {}
  BY DEF IInv, TypeOK, Idle
<1>2. p \in Pkgs /\ Rebuilds(cmd, p)
  BY <1>1 DEF Goals, Rebuilds
<1>3. /\ Installs[p] # {}
      /\ \E k \in DOMAIN cmd : /\ cmd[k].op = "clean" /\ cmd[k].pkg = p
                               /\ InstallSteps \subseteq cmd[k].steps
      /\ \E k \in DOMAIN cmd : cmd[k].op = "make" /\ cmd[k].pkg = p
  BY <1>2, RebuildParts
<1>4. \A m \in Needed[p] : seen[m] > 0
  BY <1>1, <1>3 DEF RebuildInv, MadeIsSeen
<1>5. Needed[p] \subseteq Nodes /\ IsNeeded(p, Needed[p])
  BY <1>2, NeededFacts
<1>6. b \in Needed[p] /\ b \in ran
  <2>1. PICK s \in Installs[p] : TRUE
    BY <1>3
  <2>2. <<p, s>> \in Needed[p] /\ <<p, s>> \in Nodes /\ s \in InstallSteps
    BY <1>2, <1>5, PkgConstants DEF IsNeeded, Installed
  <2>3. b \in Before[<<p, s>>] /\ b \in Nodes
    BY <2>2, InstallNeedsBuilt, BeforeFacts
  <2>4. b \in Needed[p]
    BY <1>5, <2>2, <2>3 DEF IsNeeded
  <2>5. "built" \in cmd[i].steps \ TarballSteps
    BY DEF TarballSteps
  <2> QED
    BY <1>1, <1>4, <2>3, <2>4, <2>5 DEF RebuildInv, CleanedIsRun
<1>7. ASSUME NEW s \in Installs[p], n = <<p, s>>
      PROVE  n \in ran /\ s \in InstallSteps
  <2>1. n \in Needed[p] /\ n \in Nodes
    BY <1>5, <1>7 DEF IsNeeded, Installed
  <2>2. s \in InstallSteps
    BY <1>2, PkgConstants
  <2>3. PICK k \in DOMAIN cmd : /\ cmd[k].op = "clean" /\ cmd[k].pkg = p
                                /\ InstallSteps \subseteq cmd[k].steps
    BY <1>3
  <2>4. s \in cmd[k].steps \ TarballSteps
    BY <2>2, <2>3 DEF TarballSteps, InstallSteps
  <2> QED
    BY <1>1, <1>4, <1>7, <2>1, <2>2, <2>3, <2>4 DEF RebuildInv, CleanedIsRun
<1>8. n \in ran /\ n[1] = p /\ n[2] \in {"built"} \union InstallSteps
  BY <1>6, <1>7 DEF Installed
<1> QED
  BY <1>2, <1>8 DEF RebuildInv, MadeFromAsked

\* A run of make that was asked to rebuild a package, and succeeded, has compiled
\* and installed it from sources as recent as those there were when it began:
\* whatever the clocks, the edits and the interruptions that came before.
THEOREM Rebuilt ==
    ASSUME Jobs = 1, MakesLast, RebuildGoals
    PROVE  Spec => []RebuildTakesEffect
<1>1. IInv /\ OrderInv /\ [Next]_vars => OrderInv'
  BY OrderKept
<1>2. IInv /\ OrderInv /\ RebuildInv /\ [Next]_vars => RebuildInv'
  BY RebuildKept
<1>3. IInv /\ OrderInv /\ RebuildInv => RebuildTakesEffect
  BY RebuildDone
<1> QED
  BY <1>1, <1>2, <1>3, OrderInit, RebuildInit, Inductive, PTL DEF Spec
=============================================================================
