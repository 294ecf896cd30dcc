--------------------------- MODULE NpuPower_proofs ---------------------------
(***************************************************************************)
(* Proofs about NpuPower: the types, the order of the rails, and what the  *)
(* power up and the handshake leave the NPU in.                            *)
(***************************************************************************)
EXTENDS NpuPower, TLAPS

(***************************************************************************)
(* The commands, step by step.                                             *)
(***************************************************************************)
LEMMA ProgramOf ==
    /\ Program["-i"] = npu_power_gpio_init
    /\ Program["-o"] = npu_reset
    /\ Program["-d"] = npu_poweroff
    /\ Program["-s"] = npu_suspend
    /\ Program["-r"] = npu_resume
BY DEF Program, Commands

LEMMA GpioList ==
    /\ Len(gpio_list) = 9
    /\ gpio_list[1] = "VDD_0V8" /\ gpio_list[2] = "VDD_LOG" /\ gpio_list[3] = "VCC_1V8"
    /\ gpio_list[4] = "VDD_CPU" /\ gpio_list[5] = "VCCIO_3V3" /\ gpio_list[6] = "VDD"
    /\ gpio_list[7] = "RESET" /\ gpio_list[8] = "PMU_SLEEP" /\ gpio_list[9] = "INT"
    /\ Gpios = {"VDD_0V8", "VDD_LOG", "VCC_1V8", "VDD_CPU", "VCCIO_3V3", "VDD",
                "RESET", "PMU_SLEEP", "INT"}
<1>1. /\ Len(gpio_list) = 9
      /\ gpio_list[1] = "VDD_0V8" /\ gpio_list[2] = "VDD_LOG" /\ gpio_list[3] = "VCC_1V8"
      /\ gpio_list[4] = "VDD_CPU" /\ gpio_list[5] = "VCCIO_3V3" /\ gpio_list[6] = "VDD"
      /\ gpio_list[7] = "RESET" /\ gpio_list[8] = "PMU_SLEEP" /\ gpio_list[9] = "INT"
  BY DEF gpio_list
<1>2. DOMAIN gpio_list = {1, 2, 3, 4, 5, 6, 7, 8, 9}
  BY DEF gpio_list
<1>3. Gpios = {gpio_list[1], gpio_list[2], gpio_list[3], gpio_list[4], gpio_list[5],
               gpio_list[6], gpio_list[7], gpio_list[8], gpio_list[9]}
  BY <1>2 DEF Gpios
<1>4. QED
  BY <1>1, <1>3

LEMMA InitSteps ==
    /\ Len(npu_power_gpio_init) = 19
    /\ \A i \in 1..18 :
        npu_power_gpio_init[i] = IF i % 2 = 1 THEN Do("export", gpio_list[(i + 1) \div 2])
                                 ELSE Do("out", gpio_list[i \div 2])
    /\ npu_power_gpio_init[19] = Do("in", "PMU_SLEEP")
<1>1. npu_power_gpio_init = [i \in 1..19 |->
        IF i > 18 THEN Do("in", "PMU_SLEEP")
        ELSE IF i % 2 = 1 THEN Do("export", gpio_list[(i + 1) \div 2])
        ELSE Do("out", gpio_list[i \div 2])]
  BY GpioList DEF npu_power_gpio_init
<1>2. Len(npu_power_gpio_init) = 19
  BY <1>1
<1>3. npu_power_gpio_init[19] = Do("in", "PMU_SLEEP")
  BY <1>1
<1>4. ASSUME NEW i \in 1..18
      PROVE  npu_power_gpio_init[i] =
                IF i % 2 = 1 THEN Do("export", gpio_list[(i + 1) \div 2])
                ELSE Do("out", gpio_list[i \div 2])
  BY <1>1
<1>5. QED
  BY <1>2, <1>3, <1>4

LEMMA ResetSteps ==
    /\ Len(npu_reset) = 17
    /\ npu_reset[1] = Low("CLK") /\ npu_reset[2] = Low("VDD")
    /\ npu_reset[3] = Low("VCCIO_3V3") /\ npu_reset[4] = Low("VDD_CPU")
    /\ npu_reset[5] = Low("VCC_1V8") /\ npu_reset[6] = Low("VDD_0V8")
    /\ npu_reset[7] = Low("VDD_LOG") /\ npu_reset[8] = Low("INT")
    /\ npu_reset[9] = Low("RESET") /\ npu_reset[10] = High("VDD_0V8")
    /\ npu_reset[11] = High("VDD_LOG") /\ npu_reset[12] = High("VCC_1V8")
    /\ npu_reset[13] = High("CLK") /\ npu_reset[14] = High("VDD_CPU")
    /\ npu_reset[15] = High("VCCIO_3V3") /\ npu_reset[16] = High("VDD")
    /\ npu_reset[17] = High("RESET")
BY DEF npu_reset

LEMMA PoweroffSteps ==
    /\ Len(npu_poweroff) = 9
    /\ npu_poweroff[1] = Low("VDD") /\ npu_poweroff[2] = Low("VCCIO_3V3")
    /\ npu_poweroff[3] = Low("VDD_CPU") /\ npu_poweroff[4] = Low("VCC_1V8")
    /\ npu_poweroff[5] = Low("VDD_0V8") /\ npu_poweroff[6] = Low("VDD_LOG")
    /\ npu_poweroff[7] = Low("INT") /\ npu_poweroff[8] = Low("RESET")
    /\ npu_poweroff[9] = Low("CLK")
BY DEF npu_poweroff

LEMMA SuspendSteps ==
    /\ Len(npu_suspend) = 7
    /\ npu_suspend[1] = Do("exit_if_asleep", "PMU_SLEEP")
    /\ npu_suspend[2] = High("INT") /\ npu_suspend[3] = Low("INT")
    /\ npu_suspend[4] = Do("wait_asleep", "PMU_SLEEP")
    /\ npu_suspend[5] = Low("VDD_CPU") /\ npu_suspend[6] = Low("VDD")
    /\ npu_suspend[7] = Low("CLK")
BY DEF npu_suspend

LEMMA ResumeSteps ==
    /\ Len(npu_resume) = 7
    /\ npu_resume[1] = Do("exit_if_awake", "PMU_SLEEP")
    /\ npu_resume[2] = High("CLK") /\ npu_resume[3] = High("VDD_CPU")
    /\ npu_resume[4] = High("VDD") /\ npu_resume[5] = High("INT")
    /\ npu_resume[6] = Low("INT")
    /\ npu_resume[7] = Do("wait_awake", "PMU_SLEEP")
BY DEF npu_resume

LEMMA ProgramLengths ==
    ASSUME cmd \in Commands
    PROVE  Len(Program[cmd]) \in {19, 17, 9, 7}
<1>1. CASE cmd = "-i"
  BY <1>1, ProgramOf, InitSteps
<1>2. CASE cmd = "-o"
  BY <1>2, ProgramOf, ResetSteps
<1>3. CASE cmd = "-d"
  BY <1>3, ProgramOf, PoweroffSteps
<1>4. CASE cmd = "-s"
  BY <1>4, ProgramOf, SuspendSteps
<1>5. CASE cmd = "-r"
  BY <1>5, ProgramOf, ResumeSteps
<1>6. QED
  BY <1>1, <1>2, <1>3, <1>4, <1>5 DEF Commands

(***************************************************************************)
(* What the writes do to the lines and to the NPU.                         *)
(***************************************************************************)
LEMMA LineNames ==
    /\ Lines = Gpios \cup {"CLK"}
    /\ FirstRails = {"VDD_0V8", "VDD_LOG", "VCC_1V8"}
    /\ LastRails = {"VDD_CPU", "VCCIO_3V3", "VDD"}
    /\ Rails \subseteq Gpios /\ FirstRails \subseteq KeptAsleep
    /\ KeptAsleep \subseteq Needed /\ Needed \subseteq Lines
    /\ "PMU_SLEEP" \notin Rails /\ "CLK" \notin Rails /\ "CLK" \notin Gpios
BY GpioList DEF Lines, Rails, FirstRails, LastRails, KeptAsleep, Needed

LEMMA DriveFacts ==
    ASSUME TypeOK, NEW l \in Lines, NEW v \in {0, 1}, Drive(l, v)
    PROVE  /\ line' \in [Lines -> {0, 1}]
           /\ line'[l] = v
           /\ \A x \in Lines \ {l} : line'[x] = line[x]
           /\ npu' \in {"off", "awake", "asleep"} /\ asked' \in BOOLEAN
           /\ npu' # "off" => \A x \in FirstRails : line'[x] = 1
           /\ asked' => npu' # "off"
<1>1. line' = [line EXCEPT ![l] = v]
  BY DEF Drive
<1>2. /\ line' \in [Lines -> {0, 1}]
      /\ line'[l] = v
      /\ \A x \in Lines \ {l} : line'[x] = line[x]
  BY <1>1 DEF TypeOK
<1>3. npu' = NpuUnder(line')
  BY <1>1, Zenon DEF Drive
<1>4. npu' \in {"off", "awake", "asleep"}
  BY <1>3 DEF NpuUnder, TypeOK
<1>5. npu' # "off" => \A x \in FirstRails : line'[x] = 1
  BY <1>3, LineNames DEF NpuUnder
<1>6. asked' \in BOOLEAN /\ (asked' => npu' # "off")
  BY Zenon DEF Drive
<1>7. QED
  BY <1>2, <1>4, <1>5, <1>6

LEMMA SetFacts ==
    ASSUME TypeOK, UpAreOutputs, BootedIsPowered, set_gpio,
           NEW l \in Lines \ {"PMU_SLEEP"}, NEW v \in {0, 1},
           Instr.line = l, Instr.val = v
    PROVE  /\ line' \in [Lines -> {0, 1}]
           /\ \A x \in Lines \ {l} : line'[x] = line[x]
           /\ l \in out => line'[l] = v
           /\ line'[l] = 1 => v = 1 \/ line[l] = 1
           /\ l \in Rails /\ v = 0 => line'[l] = 0
           /\ l \in Rails /\ line'[l] = 1 => l \in out
           /\ npu' \in {"off", "awake", "asleep"} /\ asked' \in BOOLEAN
           /\ npu' # "off" => \A x \in FirstRails : line'[x] = 1
           /\ asked' => npu' # "off"
           /\ pc' = pc + 1
           /\ UNCHANGED <<cmd, retry, status, exported, out>>
<1>1. pc' = pc + 1 /\ UNCHANGED <<cmd, retry, status, exported, out>>
  BY DEF set_gpio, Advance
<1>2. CASE Writable(l)
  <2>1. Drive(l, v)
    BY <1>2 DEF set_gpio
  <2>2. line[l] \in {0, 1} /\ (l \in Rails => l \in out)
    BY <1>2, LineNames DEF TypeOK, Writable
  <2>3. QED
    BY <1>1, <2>1, <2>2, DriveFacts
<1>3. CASE ~Writable(l)
  <2>1. UNCHANGED <<line, npu, asked>>
    BY <1>3 DEF set_gpio
  <2>2. l \notin out
    BY <1>3 DEF Writable
  <2>3. l \in Rails => line[l] = 0
    BY <2>2, LineNames DEF UpAreOutputs, TypeOK
  <2>4. (npu # "off" => \A x \in FirstRails : line[x] = 1) /\ (asked => npu # "off")
    BY DEF BootedIsPowered, AllUp
  <2>5. QED
    BY <1>1, <2>1, <2>2, <2>3, <2>4 DEF TypeOK
<1>4. QED
  BY <1>2, <1>3

(***************************************************************************)
(* Which writes each command makes, and when.                              *)
(***************************************************************************)
ResetWrites ==
    /\ pc \in 1..17
    /\ Instr.val = 1 /\ Instr.line \in LastRails => pc \in 14..16
    /\ Instr.val = 0 /\ Instr.line \in FirstRails => pc \in 5..7
    /\ pc = 2 => Instr.line = "VDD" /\ Instr.val = 0
    /\ pc = 3 => Instr.line = "VCCIO_3V3" /\ Instr.val = 0
    /\ pc = 4 => Instr.line = "VDD_CPU" /\ Instr.val = 0
    /\ pc = 10 => Instr.line = "VDD_0V8" /\ Instr.val = 1
    /\ pc = 11 => Instr.line = "VDD_LOG" /\ Instr.val = 1
    /\ pc = 12 => Instr.line = "VCC_1V8" /\ Instr.val = 1

PoweroffWrites ==
    /\ Instr.val = 0
    /\ Instr.line \in FirstRails => pc >= 4
    /\ pc = 1 => Instr.line = "VDD"
    /\ pc = 2 => Instr.line = "VCCIO_3V3"
    /\ pc = 3 => Instr.line = "VDD_CPU"

LEMMA Writes ==
    ASSUME TypeOK, AtStep({"set"})
    PROVE  /\ pc \in Nat /\ pc + 1 \in 1..(Len(Program[cmd]) + 1)
           /\ Instr.line \in Lines \ {"PMU_SLEEP"} /\ Instr.val \in {0, 1}
           /\ \/ cmd = "-o" /\ ResetWrites
              \/ cmd = "-d" /\ PoweroffWrites
              \/ cmd = "-s" /\ Instr.line \notin FirstRails
                            /\ (Instr.val = 1 => Instr.line \notin Rails)
              \/ cmd = "-r" /\ Instr.line \notin FirstRails
<1> USE LineNames, GpioList
<1>0. Len(Program[cmd]) \in {19, 17, 9, 7}
  BY ProgramLengths DEF TypeOK
<1>1. Len(Program[cmd]) \in Nat /\ pc \in 1..Len(Program[cmd]) /\ pc \in Nat
      /\ Instr = Program[cmd][pc] /\ Instr.do = "set"
  BY <1>0 DEF TypeOK, AtStep, Instr
<1>2. CASE cmd = "-i"
  <2>1. pc \in 1..19 /\ Instr = npu_power_gpio_init[pc]
    BY <1>1, <1>2, ProgramOf, InitSteps
  <2>2. ASSUME NEW what, NEW g PROVE Do(what, g).do = what
    BY DEF Do
  <2>3. CASE pc = 19
    <3>1. Instr.do = "in"
      BY <2>1, <2>2, <2>3, InitSteps
    <3>2. QED
      BY <1>1, <3>1
  <2>4. CASE pc \in 1..18
    <3>1. Instr.do = IF pc % 2 = 1 THEN "export" ELSE "out"
      BY <2>1, <2>2, <2>4, InitSteps
    <3>2. QED
      BY <1>1, <3>1
  <2>5. QED
    BY <2>1, <2>3, <2>4
<1>3. CASE cmd = "-o"
  <2>1. pc \in 1..17 /\ Instr = npu_reset[pc]
    BY <1>1, <1>3, ProgramOf, ResetSteps
  <2>2. Instr.line \in Lines \ {"PMU_SLEEP"} /\ Instr.val \in {0, 1} /\ ResetWrites
    BY <2>1, ResetSteps DEF ResetWrites, Low, High, Rails
  <2>3. QED
    BY <1>1, <1>3, <2>2
<1>4. CASE cmd = "-d"
  <2>1. pc \in 1..9 /\ Instr = npu_poweroff[pc]
    BY <1>1, <1>4, ProgramOf, PoweroffSteps
  <2>2. Instr.line \in Lines \ {"PMU_SLEEP"} /\ Instr.val \in {0, 1} /\ PoweroffWrites
    BY <2>1, PoweroffSteps DEF PoweroffWrites, Low, High, Rails
  <2>3. QED
    BY <1>1, <1>4, <2>2
<1>5. CASE cmd = "-s"
  <2>1. pc \in 1..7 /\ Instr = npu_suspend[pc]
    BY <1>1, <1>5, ProgramOf, SuspendSteps
  <2>2. ASSUME NEW what, NEW g PROVE Do(what, g).do = what
    BY DEF Do
  <2>3. pc \in {2, 3, 5, 6, 7}
    BY <1>1, <2>1, <2>2, SuspendSteps
  <2>4. /\ Instr.line \in Lines \ {"PMU_SLEEP"} /\ Instr.val \in {0, 1}
        /\ Instr.line \notin FirstRails
        /\ (Instr.val = 1 => Instr.line \notin Rails)
    BY <2>1, <2>3, SuspendSteps DEF Low, High, Rails
  <2>5. QED
    BY <1>1, <1>5, <2>4
<1>6. CASE cmd = "-r"
  <2>1. pc \in 1..7 /\ Instr = npu_resume[pc]
    BY <1>1, <1>6, ProgramOf, ResumeSteps
  <2>2. ASSUME NEW what, NEW g PROVE Do(what, g).do = what
    BY DEF Do
  <2>3. pc \in {2, 3, 4, 5, 6}
    BY <1>1, <2>1, <2>2, ResumeSteps
  <2>4. /\ Instr.line \in Lines \ {"PMU_SLEEP"} /\ Instr.val \in {0, 1}
        /\ Instr.line \notin FirstRails
    BY <2>1, <2>3, ResumeSteps DEF Low, High, Rails
  <2>5. QED
    BY <1>1, <1>6, <2>4
<1>7. QED
  BY <1>2, <1>3, <1>4, <1>5, <1>6 DEF Commands, TypeOK

(***************************************************************************)
(* The steps.  A write, first: each command by what it has done so far.    *)
(***************************************************************************)
LEMMA InitIInv == Init => IInv
<1> SUFFICES ASSUME Init PROVE IInv
  OBVIOUS
<1>1. TypeOK
  <2>1. 1 \in 1..(Len(Program["-i"]) + 1)
    BY ProgramOf, InitSteps
  <2>2. Retries \in 1..Retries
    BY RetriesAssumption
  <2>3. QED
    BY <2>1, <2>2 DEF Init, TypeOK, Commands
<1>2. \A l \in Lines : line[l] = 0
  BY DEF Init
<1>3. UpAreOutputs /\ RailsInOrder
  BY <1>2, LineNames DEF Init, UpAreOutputs, RailsInOrder
<1>4. InitProgress /\ ResetProgress /\ PoweroffProgress /\ ResumeProgress /\ BootedIsPowered
  BY DEF Init, InitProgress, ResetProgress, PoweroffProgress, ResumeProgress,
         BootedIsPowered, Doing, Running
<1>5. QED
  BY <1>1, <1>3, <1>4 DEF IInv

LEMMA SetIInv ==
    ASSUME IInv, set_gpio
    PROVE  IInv'
<1> DEFINE l == Instr.line
           v == Instr.val
<1> USE LineNames
<1>1. /\ pc \in Nat /\ pc + 1 \in 1..(Len(Program[cmd]) + 1)
      /\ l \in Lines \ {"PMU_SLEEP"} /\ v \in {0, 1}
      /\ \/ cmd = "-o" /\ ResetWrites
         \/ cmd = "-d" /\ PoweroffWrites
         \/ cmd = "-s" /\ l \notin FirstRails /\ (v = 1 => l \notin Rails)
         \/ cmd = "-r" /\ l \notin FirstRails
  BY Writes DEF IInv, set_gpio
<1>2. /\ line' \in [Lines -> {0, 1}]
      /\ \A x \in Lines \ {l} : line'[x] = line[x]
      /\ l \in out => line'[l] = v
      /\ line'[l] = 1 => v = 1 \/ line[l] = 1
      /\ l \in Rails /\ v = 0 => line'[l] = 0
      /\ l \in Rails /\ line'[l] = 1 => l \in out
      /\ npu' \in {"off", "awake", "asleep"} /\ asked' \in BOOLEAN
      /\ npu' # "off" => \A x \in FirstRails : line'[x] = 1
      /\ asked' => npu' # "off"
      /\ pc' = pc + 1
      /\ UNCHANGED <<cmd, retry, status, exported, out>>
  BY <1>1, SetFacts DEF IInv
<1>3. TypeOK'
  <2>1. Program' = Program
    BY DEF Program
  <2>2. QED
    BY <1>1, <1>2 DEF IInv, TypeOK
<1>4. UpAreOutputs'
  BY <1>2 DEF IInv, UpAreOutputs, Rails
<1>5. InitProgress'
  BY <1>1, <1>2 DEF IInv, InitProgress, Doing, Running
<1>6. BootedIsPowered'
  BY <1>2 DEF BootedIsPowered, AllUp
<1>7. Running /\ Running'
  BY <1>2 DEF set_gpio, AtStep, Running
<1>8. CASE cmd = "-o"
  <2>1. ResetWrites
    BY <1>1, <1>8
  <2>2. "PMU_SLEEP" \in exported => Rails \subseteq out
    BY DEF IInv, InitProgress
  <2>3. ResetProgress'
    <3>1. pc' <= 14 =>
            /\ pc' >= 3 => line'["VDD"] = 0
            /\ pc' >= 4 => line'["VCCIO_3V3"] = 0
            /\ pc' >= 5 => line'["VDD_CPU"] = 0
      BY <1>1, <1>2, <1>7, <1>8, <2>1 DEF IInv, ResetProgress, ResetWrites, Doing, Rails, TypeOK
    <3>2. "PMU_SLEEP" \in exported =>
            /\ pc' >= 11 => line'["VDD_0V8"] = 1
            /\ pc' >= 12 => line'["VDD_LOG"] = 1
            /\ pc' >= 13 => line'["VCC_1V8"] = 1
      BY <1>1, <1>2, <1>7, <1>8, <2>1, <2>2 DEF IInv, ResetProgress, ResetWrites, Doing, Rails
    <3>3. QED
      BY <1>2, <3>1, <3>2 DEF ResetProgress, Doing
  <2>4. RailsInOrder'
    <3>1. SUFFICES ASSUME "PMU_SLEEP" \in exported, NEW late \in LastRails, line'[late] = 1
                   PROVE  \A x \in FirstRails : line'[x] = 1
      BY <1>2 DEF RailsInOrder
    <3>2. CASE pc <= 13
      <4>1. line[late] = 1
        BY <1>1, <1>2, <2>1, <3>1, <3>2 DEF ResetWrites, Rails
      <4>2. \A x \in FirstRails : line[x] = 1
        BY <3>1, <4>1 DEF IInv, RailsInOrder
      <4>3. pc < 5
        BY <1>1, <1>7, <1>8, <3>2, <4>1 DEF IInv, ResetProgress, Doing
      <4>4. l \in FirstRails => v = 1
        BY <1>1, <2>1, <4>3 DEF ResetWrites
      <4>5. QED
        BY <1>1, <1>2, <2>2, <3>1, <4>2, <4>4 DEF Rails
    <3>3. CASE pc >= 14
      <4>1. \A x \in FirstRails : line[x] = 1
        BY <1>1, <1>7, <1>8, <3>1, <3>3 DEF IInv, ResetProgress, Doing
      <4>2. l \in FirstRails => v = 1
        BY <1>1, <2>1, <3>3 DEF ResetWrites
      <4>3. QED
        BY <1>1, <1>2, <2>2, <3>1, <4>1, <4>2 DEF Rails
    <3>4. QED
      BY <1>1, <3>2, <3>3
  <2>5. PoweroffProgress' /\ ResumeProgress'
    BY <1>2, <1>8 DEF PoweroffProgress, ResumeProgress, Doing
  <2>6. QED
    BY <1>3, <1>4, <1>5, <1>6, <2>3, <2>4, <2>5 DEF IInv
<1>9. CASE cmd = "-d"
  <2>1. PoweroffWrites
    BY <1>1, <1>9
  <2>2. PoweroffProgress'
    <3>1. /\ pc' >= 2 => line'["VDD"] = 0
          /\ pc' >= 3 => line'["VCCIO_3V3"] = 0
          /\ pc' >= 4 => line'["VDD_CPU"] = 0
      BY <1>1, <1>2, <1>7, <1>9, <2>1
      DEF IInv, PoweroffProgress, PoweroffWrites, Doing, Rails, TypeOK
    <3>2. QED
      BY <1>2, <3>1 DEF PoweroffProgress, Doing
  <2>3. RailsInOrder'
    <3>1. SUFFICES ASSUME "PMU_SLEEP" \in exported, NEW late \in LastRails, line'[late] = 1
                   PROVE  \A x \in FirstRails : line'[x] = 1
      BY <1>2 DEF RailsInOrder
    <3>2. line[late] = 1
      BY <1>1, <1>2, <2>1, <3>1 DEF PoweroffWrites, Rails
    <3>3. pc < 4
      BY <1>1, <1>7, <1>9, <3>2 DEF IInv, PoweroffProgress, Doing
    <3>4. l \notin FirstRails
      BY <1>1, <2>1, <3>3 DEF PoweroffWrites
    <3>5. QED
      BY <1>1, <1>2, <3>1, <3>2, <3>4 DEF IInv, RailsInOrder
  <2>4. ResetProgress' /\ ResumeProgress'
    BY <1>2, <1>9 DEF ResetProgress, ResumeProgress, Doing
  <2>5. QED
    BY <1>3, <1>4, <1>5, <1>6, <2>2, <2>3, <2>4 DEF IInv
<1>10. CASE cmd \in {"-s", "-r"}
  <2>1. l \notin FirstRails
    BY <1>1, <1>10
  <2>2. \A x \in FirstRails : line'[x] = line[x]
    BY <1>1, <1>2, <2>1
  <2>3. ResumeProgress'
    <3>1. SUFFICES ASSUME "PMU_SLEEP" \in exported, cmd = "-r", pc' >= 2
                   PROVE  \A x \in FirstRails : line[x] = 1
      BY <1>2, <2>2 DEF ResumeProgress, Doing, AllUp
    <3>2. pc # 1
      <4>1. pc = 1 => Instr.do = "exit_if_awake"
        BY <3>1, ProgramOf, ResumeSteps DEF Instr, Do
      <4>2. Instr.do = "set"
        BY DEF set_gpio, AtStep, Instr
      <4>3. QED
        BY <4>1, <4>2
    <3>3. QED
      BY <1>1, <1>2, <1>7, <3>1, <3>2 DEF IInv, ResumeProgress, Doing, AllUp
  <2>4. RailsInOrder'
    <3>1. SUFFICES ASSUME "PMU_SLEEP" \in exported, NEW late \in LastRails, line'[late] = 1
                   PROVE  \A x \in FirstRails : line[x] = 1
      BY <1>2, <2>2 DEF RailsInOrder
    <3>2. CASE cmd = "-s"
      <4>1. line[late] = 1
        BY <1>1, <1>2, <3>1, <3>2 DEF Rails
      <4>2. QED
        BY <3>1, <4>1 DEF IInv, RailsInOrder
    <3>3. CASE cmd = "-r"
      <4>1. pc' >= 2
        BY <1>1, <1>2 DEF IInv, TypeOK
      <4>2. \A x \in FirstRails : line'[x] = 1
        BY <1>2, <1>7, <2>3, <3>1, <3>3, <4>1 DEF ResumeProgress, Doing, AllUp
      <4>3. QED
        BY <2>2, <4>2
    <3>4. QED
      BY <1>10, <3>2, <3>3
  <2>5. ResetProgress' /\ PoweroffProgress'
    BY <1>2, <1>10 DEF ResetProgress, PoweroffProgress, Doing
  <2>6. QED
    BY <1>3, <1>4, <1>5, <1>6, <2>3, <2>4, <2>5 DEF IInv
<1>11. QED
  BY <1>1, <1>8, <1>9, <1>10

(***************************************************************************)
(* The init.                                                               *)
(***************************************************************************)
LEMMA InitOnly ==
    ASSUME TypeOK, AtStep({"export", "out", "in"})
    PROVE  /\ Running /\ cmd = "-i" /\ pc \in 1..19 /\ pc + 1 \in 1..(Len(Program[cmd]) + 1)
           /\ Instr = npu_power_gpio_init[pc]
<1>1. Len(Program[cmd]) \in {19, 17, 9, 7}
  BY ProgramLengths DEF TypeOK
<1>2. /\ Running /\ pc \in 1..Len(Program[cmd])
      /\ Instr = Program[cmd][pc] /\ Instr.do \in {"export", "out", "in"}
  BY <1>1 DEF TypeOK, AtStep, Instr
<1>3. cmd = "-i"
  <2>1. CASE cmd = "-o"
    BY <1>2, <2>1, ProgramOf, ResetSteps DEF Low, High
  <2>2. CASE cmd = "-d"
    BY <1>2, <2>2, ProgramOf, PoweroffSteps DEF Low, High
  <2>3. CASE cmd = "-s"
    BY <1>2, <2>3, ProgramOf, SuspendSteps DEF Low, High, Do
  <2>4. CASE cmd = "-r"
    BY <1>2, <2>4, ProgramOf, ResumeSteps DEF Low, High, Do
  <2>5. QED
    BY <2>1, <2>2, <2>3, <2>4 DEF TypeOK, Commands
<1>4. QED
  BY <1>1, <1>2, <1>3, ProgramOf, InitSteps

\* Only the init has anything to say of its own progress.
LEMMA OtherProgress ==
    ASSUME cmd' = "-i"
    PROVE  ResetProgress' /\ PoweroffProgress' /\ ResumeProgress'
BY DEF ResetProgress, PoweroffProgress, ResumeProgress, Doing

LEMMA ExportIInv ==
    ASSUME IInv, request_gpio
    PROVE  IInv'
<1> USE LineNames
<1>1. /\ Running /\ cmd = "-i" /\ pc \in 1..19 /\ pc + 1 \in 1..(Len(Program[cmd]) + 1)
      /\ Instr = npu_power_gpio_init[pc]
  BY InitOnly DEF IInv, request_gpio, AtStep
<1>2. Instr.do = "export" /\ UNCHANGED <<out, line, npu, asked, cmd, retry>>
  BY DEF request_gpio, AtStep, Advance, Exit, Instr
<1>3. /\ pc \in 1..18 /\ pc % 2 = 1
      /\ Instr.line = gpio_list[(pc + 1) \div 2]
  <2>1. pc # 19
    BY <1>1, <1>2, InitSteps DEF Do
  <2>2. Instr = IF pc % 2 = 1 THEN Do("export", gpio_list[(pc + 1) \div 2])
                ELSE Do("out", gpio_list[pc \div 2])
    <3>1. pc \in 1..18
      BY <1>1, <2>1
    <3>2. QED
      BY <1>1, <3>1, InitSteps, Zenon
  <2>3. QED
    BY <1>1, <1>2, <2>1, <2>2 DEF Do
<1>4. PICK k \in 1..9 : pc = 2 * k - 1 /\ Instr.line = gpio_list[k]
  BY <1>3
<1>5. Instr.line \in Gpios
  BY <1>4, GpioList
<1>6. UpAreOutputs' /\ BootedIsPowered' /\ Program' = Program
  BY <1>2 DEF IInv, UpAreOutputs, BootedIsPowered, AllUp, Program
<1>7. CASE Instr.line \in exported
  <2>1. status' = "ok" /\ pc' = pc /\ exported' = exported
    BY <1>7 DEF request_gpio, Exit
  <2>2. TypeOK'
    BY <1>2, <1>6, <2>1 DEF IInv, TypeOK
  <2>3. InitProgress' /\ RailsInOrder'
    BY <1>2, <2>1 DEF IInv, InitProgress, RailsInOrder, Doing, Running
  <2>4. QED
    BY <1>1, <1>2, <1>6, <2>2, <2>3, OtherProgress DEF IInv
<1>8. CASE Instr.line \notin exported
  <2>1. status' = status /\ pc' = pc + 1 /\ exported' = exported \cup {Instr.line}
    BY <1>8 DEF request_gpio, Advance
  <2>2. TypeOK'
    BY <1>1, <1>2, <1>5, <1>6, <2>1 DEF IInv, TypeOK
  <2>3. AllDown(Rails)
    <3>1. CASE k = 1
      <4>1. out = {}
        BY <1>4, <1>8, <3>1, GpioList DEF IInv, InitProgress, TypeOK
      <4>2. QED
        BY <4>1 DEF IInv, UpAreOutputs, AllDown, TypeOK
    <3>2. CASE k # 1
      BY <1>1, <1>4, <3>2 DEF IInv, InitProgress, Doing
    <3>3. QED
      BY <3>1, <3>2
  <2>4. RailsInOrder'
    BY <1>2, <2>3 DEF RailsInOrder, AllDown, Rails
  <2>5. "VDD_0V8" \in exported'
    <3>1. CASE k = 1
      BY <1>4, <2>1, <3>1, GpioList
    <3>2. CASE k # 1
      <4>1. gpio_list[1] \in exported
        BY <1>1, <1>4, <3>2 DEF IInv, InitProgress, Doing
      <4>2. QED
        BY <2>1, <4>1, GpioList
    <3>3. QED
      BY <3>1, <3>2
  <2>6. \A i \in 1..9 : 2 * i <= pc' => gpio_list[i] \in exported'
    <3>1. \A i \in 1..9 : i < k => gpio_list[i] \in exported
      BY <1>1, <1>4 DEF IInv, InitProgress, Doing
    <3>2. QED
      BY <1>4, <2>1, <3>1
  <2>7. \A i \in 1..7 : i < k => gpio_list[i] \in out
    BY <1>1, <1>4 DEF IInv, InitProgress, Doing
  <2>8. "PMU_SLEEP" \in exported' => Rails \cup {"RESET"} \subseteq out
    <3>1. CASE "PMU_SLEEP" \in exported
      BY <3>1 DEF IInv, InitProgress
    <3>2. CASE Instr.line = "PMU_SLEEP"
      <4>1. k = 8
        <5>1. gpio_list[k] = "PMU_SLEEP" /\ k \in {1, 2, 3, 4, 5, 6, 7, 8, 9}
          BY <1>4, <3>2
        <5>2. QED
          BY <5>1, GpioList
      <4>2. QED
        BY <2>7, <4>1, GpioList DEF Rails
    <3>3. QED
      BY <2>1, <3>1, <3>2
  <2>9. InitProgress'
    <3>1. AllDown(Rails)'
      BY <1>2, <2>3 DEF AllDown
    <3>2. \A i \in 1..7 : 2 * i < pc' => gpio_list[i] \in out'
      BY <1>2, <1>4, <2>1, <2>7
    <3>3. QED
      BY <1>2, <2>5, <2>6, <2>8, <3>1, <3>2 DEF InitProgress
  <2>10. QED
    BY <1>1, <1>2, <1>6, <2>2, <2>4, <2>9, OtherProgress DEF IInv
<1>9. QED
  BY <1>7, <1>8

LEMMA DirectionIInv ==
    ASSUME IInv, set_gpio_dir
    PROVE  IInv'
<1> USE LineNames
<1>1. /\ Running /\ cmd = "-i" /\ pc \in 1..19 /\ pc + 1 \in 1..(Len(Program[cmd]) + 1)
      /\ Instr = npu_power_gpio_init[pc]
  BY InitOnly DEF IInv, set_gpio_dir, AtStep
<1>2. /\ Instr.do \in {"out", "in"}
      /\ pc' = pc + 1 /\ UNCHANGED <<cmd, retry, status, exported>>
  BY DEF set_gpio_dir, AtStep, Advance, Instr
<1>3. pc # 1 /\ Program' = Program
  <2>1. pc # 1
    BY <1>1, <1>2, InitSteps DEF Do
  <2>2. QED
    BY <2>1 DEF Program
<1>4. /\ AllDown(Rails)
      /\ \A k \in 1..9 : 2 * k <= pc => gpio_list[k] \in exported
      /\ \A k \in 1..7 : 2 * k < pc => gpio_list[k] \in out
      /\ "VDD_0V8" \in exported
      /\ "PMU_SLEEP" \in exported => Rails \cup {"RESET"} \subseteq out
  <2>1. Doing("-i", 2)
    BY <1>1, <1>3 DEF Doing
  <2>2. gpio_list[1] \in exported
    BY <1>1, <1>3, <2>1 DEF IInv, InitProgress
  <2>3. QED
    BY <2>1, <2>2, GpioList DEF IInv, InitProgress
<1>5. CASE Instr.do = "out"
  <2>1. PICK k \in 1..9 : pc = 2 * k /\ Instr.line = gpio_list[k]
    <3>1. pc \in 1..18
      BY <1>1, <1>5, InitSteps DEF Do
    <3>2. Instr = IF pc % 2 = 1 THEN Do("export", gpio_list[(pc + 1) \div 2])
                  ELSE Do("out", gpio_list[pc \div 2])
      BY <1>1, <3>1, InitSteps, Zenon
    <3>3. pc % 2 = 0 /\ Instr.line = gpio_list[pc \div 2]
      BY <1>5, <3>1, <3>2 DEF Do
    <3>4. QED
      BY <3>1, <3>3
  <2>2. Instr.line \in Gpios /\ Instr.line \in exported
    BY <1>4, <2>1, GpioList
  <2>3. out' = out \cup {Instr.line} /\ Drive(Instr.line, 0)
    BY <1>5 DEF set_gpio_dir
  <2>4. /\ line' \in [Lines -> {0, 1}]
        /\ line'[Instr.line] = 0
        /\ \A x \in Lines \ {Instr.line} : line'[x] = line[x]
        /\ npu' \in {"off", "awake", "asleep"} /\ asked' \in BOOLEAN
        /\ npu' # "off" => \A x \in FirstRails : line'[x] = 1
        /\ asked' => npu' # "off"
    BY <2>2, <2>3, DriveFacts DEF IInv
  <2>5. \A x \in Rails : line'[x] = 0
    BY <1>4, <2>4 DEF AllDown
  <2>6. TypeOK'
    BY <1>1, <1>2, <1>3, <2>2, <2>3, <2>4 DEF IInv, TypeOK
  <2>7. UpAreOutputs' /\ RailsInOrder' /\ BootedIsPowered'
    BY <2>4, <2>5 DEF UpAreOutputs, RailsInOrder, BootedIsPowered, AllUp, Rails
  <2>8. InitProgress'
    <3>1. \A i \in 1..9 : 2 * i <= pc' => gpio_list[i] \in exported'
      BY <1>2, <1>4, <2>1
    <3>2. \A i \in 1..7 : 2 * i < pc' => gpio_list[i] \in out'
      BY <1>2, <1>4, <2>1, <2>3
    <3>3. "PMU_SLEEP" \in exported' => Rails \cup {"RESET"} \subseteq out'
      BY <1>2, <1>4, <2>3
    <3>4. "VDD_0V8" \in exported' /\ AllDown(Rails)'
      BY <1>2, <1>4, <2>5 DEF AllDown
    <3>5. QED
      BY <3>1, <3>2, <3>3, <3>4 DEF InitProgress
  <2>9. QED
    BY <1>1, <1>2, <2>6, <2>7, <2>8, OtherProgress DEF IInv
<1>6. CASE Instr.do = "in"
  <2>1. pc = 19 /\ Instr.line = "PMU_SLEEP"
    <3>1. CASE pc = 19
      BY <1>1, <3>1, InitSteps DEF Do
    <3>2. CASE pc \in 1..18
      <4>1. Instr = IF pc % 2 = 1 THEN Do("export", gpio_list[(pc + 1) \div 2])
                    ELSE Do("out", gpio_list[pc \div 2])
        BY <1>1, <3>2, InitSteps, Zenon
      <4>2. QED
        BY <1>6, <4>1 DEF Do
    <3>3. QED
      BY <1>1, <3>1, <3>2
  <2>2. out' = out \ {"PMU_SLEEP"} /\ UNCHANGED <<line, npu, asked>>
    BY <1>6, <2>1 DEF set_gpio_dir
  <2>3. TypeOK'
    BY <1>1, <1>2, <1>3, <2>2 DEF IInv, TypeOK
  <2>4. UpAreOutputs' /\ RailsInOrder' /\ BootedIsPowered'
    BY <1>2, <2>2 DEF IInv, UpAreOutputs, RailsInOrder, BootedIsPowered, AllUp
  <2>5. InitProgress'
    <3>1. \A i \in 1..9 : 2 * i <= pc' => gpio_list[i] \in exported'
      BY <1>2, <1>4, <2>1
    <3>2. \A i \in 1..7 : gpio_list[i] # "PMU_SLEEP"
      <4>1. \A i \in {1, 2, 3, 4, 5, 6, 7} : gpio_list[i] # "PMU_SLEEP"
        BY GpioList
      <4>2. QED
        BY <4>1
    <3>3. \A i \in 1..7 : 2 * i < pc' => gpio_list[i] \in out'
      BY <1>4, <2>1, <2>2, <3>2
    <3>4. "PMU_SLEEP" \in exported' => Rails \cup {"RESET"} \subseteq out'
      BY <1>2, <1>4, <2>2
    <3>5. "VDD_0V8" \in exported' /\ AllDown(Rails)'
      BY <1>2, <1>4, <2>2 DEF AllDown
    <3>6. QED
      BY <3>1, <3>3, <3>4, <3>5 DEF InitProgress
  <2>6. QED
    BY <1>1, <1>2, <2>3, <2>4, <2>5, OtherProgress DEF IInv
<1>7. QED
  BY <1>2, <1>5, <1>6

(***************************************************************************)
(* The steps that leave the lines alone.                                   *)
(***************************************************************************)
LEMMA QuietIInv ==
    ASSUME IInv, TypeOK', UNCHANGED <<exported, out, line>>,
           npu = "off" => npu' = "off",
           asked' => npu' # "off",
           \/ UNCHANGED <<cmd, pc, status>>
           \/ ~Running'
           \/ Running' /\ pc' = 1
    PROVE  IInv'
<1>1. UpAreOutputs' /\ RailsInOrder' /\ BootedIsPowered'
  BY DEF IInv, UpAreOutputs, RailsInOrder, BootedIsPowered, AllUp
<1>2. InitProgress' /\ ResetProgress' /\ PoweroffProgress' /\ ResumeProgress'
  BY DEF IInv, InitProgress, ResetProgress, PoweroffProgress, ResumeProgress,
         Doing, Running, AllUp, AllDown
<1>3. QED
  BY <1>1, <1>2 DEF IInv

\* The polls and the checks are steps of a suspend or a resume.
LEMMA HandshakeOnly ==
    ASSUME TypeOK, AtStep({"exit_if_asleep", "exit_if_awake", "wait_asleep", "wait_awake"})
    PROVE  /\ Running /\ cmd \in {"-s", "-r"} /\ pc \in Nat
           /\ pc + 1 \in 1..(Len(Program[cmd]) + 1)
           /\ cmd = "-r" /\ pc = 1 => Instr.do = "exit_if_awake"
<1>1. Len(Program[cmd]) \in {19, 17, 9, 7}
  BY ProgramLengths DEF TypeOK
<1>2. /\ Running /\ pc \in 1..Len(Program[cmd]) /\ Instr = Program[cmd][pc]
      /\ Instr.do \in {"exit_if_asleep", "exit_if_awake", "wait_asleep", "wait_awake"}
  BY <1>1 DEF TypeOK, AtStep, Instr
<1>3. cmd # "-o" /\ cmd # "-d"
  <2>1. CASE cmd = "-o"
    BY <1>2, <2>1, ProgramOf, ResetSteps DEF Low, High
  <2>2. CASE cmd = "-d"
    BY <1>2, <2>2, ProgramOf, PoweroffSteps DEF Low, High
  <2>3. QED
    BY <2>1, <2>2
<1>4. cmd # "-i"
  <2>1. SUFFICES ASSUME cmd = "-i" PROVE FALSE
    OBVIOUS
  <2>2. pc \in 1..19 /\ Instr = npu_power_gpio_init[pc]
    BY <1>2, <2>1, ProgramOf, InitSteps
  <2>3. CASE pc = 19
    BY <1>2, <2>2, <2>3, InitSteps DEF Do
  <2>4. CASE pc \in 1..18
    <3>1. Instr = IF pc % 2 = 1 THEN Do("export", gpio_list[(pc + 1) \div 2])
                  ELSE Do("out", gpio_list[pc \div 2])
      BY <2>2, <2>4, InitSteps, Zenon
    <3>2. QED
      BY <1>2, <3>1 DEF Do
  <2>5. QED
    BY <2>2, <2>3, <2>4
<1>5. cmd = "-r" /\ pc = 1 => Instr.do = "exit_if_awake"
  BY <1>2, ProgramOf, ResumeSteps DEF Do
<1>6. QED
  BY <1>1, <1>2, <1>3, <1>4, <1>5 DEF TypeOK, Commands

LEMMA CheckIInv ==
    ASSUME IInv, CheckState, OffReads = {0}
    PROVE  IInv'
<1>1. /\ Running /\ cmd \in {"-s", "-r"} /\ pc \in Nat
      /\ pc + 1 \in 1..(Len(Program[cmd]) + 1)
      /\ cmd = "-r" /\ pc = 1 => Instr.do = "exit_if_awake"
  <2>1. AtStep({"exit_if_asleep", "exit_if_awake", "wait_asleep", "wait_awake"})
    BY DEF CheckState, AtStep
  <2>2. QED
    BY <2>1, HandshakeOnly DEF IInv
<1>2. UNCHANGED <<exported, out, line, npu, asked, cmd, retry>> /\ Program' = Program
  BY DEF CheckState, Exit, Advance, Program
<1>3. PICK level \in get_gpio : IF level = Wanted(Instr.do) THEN Exit("ok") ELSE Advance
  BY DEF CheckState
<1>4. CASE level = Wanted(Instr.do)
  <2>1. status' = "ok" /\ pc' = pc
    BY <1>3, <1>4 DEF Exit
  <2>2. TypeOK' /\ ~Running'
    BY <1>2, <2>1 DEF IInv, TypeOK, Running
  <2>3. QED
    BY <1>2, <2>2, QuietIInv DEF IInv, BootedIsPowered
<1>5. CASE level # Wanted(Instr.do)
  <2>1. status' = status /\ pc' = pc + 1
    BY <1>3, <1>5 DEF Advance
  <2>2. TypeOK'
    BY <1>1, <1>2, <2>1 DEF IInv, TypeOK
  <2>3. ResumeProgress'
    <3>1. SUFFICES ASSUME "PMU_SLEEP" \in exported, cmd = "-r"
                   PROVE  \A x \in FirstRails : line[x] = 1
      BY <1>2 DEF ResumeProgress, Doing, AllUp
    <3>2. CASE pc = 1
      <4>1. level # 0
        BY <1>1, <1>5, <3>1, <3>2 DEF Wanted
      <4>2. npu = "asleep"
        BY <3>1, <4>1, <1>3 DEF get_gpio
      <4>3. QED
        BY <4>2 DEF IInv, BootedIsPowered, AllUp
    <3>3. CASE pc # 1
      <4>1. Doing("-r", 2)
        BY <1>1, <3>1, <3>3 DEF IInv, TypeOK, Doing
      <4>2. QED
        BY <3>1, <4>1 DEF IInv, ResumeProgress, AllUp
    <3>4. QED
      BY <3>2, <3>3
  <2>4. InitProgress' /\ ResetProgress' /\ PoweroffProgress'
    BY <1>1, <1>2 DEF IInv, InitProgress, ResetProgress, PoweroffProgress, Doing
  <2>5. UpAreOutputs' /\ RailsInOrder' /\ BootedIsPowered'
    BY <1>2 DEF IInv, UpAreOutputs, RailsInOrder, BootedIsPowered, AllUp
  <2>6. QED
    BY <2>2, <2>3, <2>4, <2>5 DEF IInv
<1>6. QED
  BY <1>4, <1>5

LEMMA PollIInv ==
    ASSUME IInv, Poll
    PROVE  IInv'
<1>1. Running /\ cmd \in {"-s", "-r"} /\ pc \in Nat /\ pc + 1 \in 1..(Len(Program[cmd]) + 1)
      /\ (cmd = "-r" /\ pc = 1 => Instr.do = "exit_if_awake")
  <2>1. AtStep({"exit_if_asleep", "exit_if_awake", "wait_asleep", "wait_awake"})
    BY DEF Poll, AtPoll, AtStep
  <2>2. QED
    BY <2>1, HandshakeOnly DEF IInv
<1>2. /\ UNCHANGED <<exported, out, line, npu, asked, cmd, status>> /\ Program' = Program
      /\ pc' = pc \/ pc' = pc + 1
  BY DEF Poll, Program
<1>3. TypeOK'
  <2>1. retry' \in 1..Retries
    BY RetriesAssumption DEF IInv, TypeOK, Poll
  <2>2. QED
    BY <1>1, <1>2, <2>1 DEF IInv, TypeOK
<1>4. ~(cmd = "-r" /\ pc = 1)
  <2>1. Instr.do \in {"wait_asleep", "wait_awake"}
    BY DEF Poll, AtPoll, AtStep, Instr
  <2>2. QED
    BY <1>1, <2>1
<1>5. InitProgress' /\ ResetProgress' /\ PoweroffProgress'
  BY <1>1, <1>2 DEF IInv, InitProgress, ResetProgress, PoweroffProgress, Doing
<1>6. ResumeProgress'
  <2>1. Doing("-r", 2)' => Doing("-r", 2)
    BY <1>1, <1>2, <1>4 DEF IInv, TypeOK, Doing
  <2>2. QED
    BY <1>2, <2>1 DEF IInv, ResumeProgress, AllUp
<1>7. UpAreOutputs' /\ RailsInOrder' /\ BootedIsPowered'
  BY <1>2 DEF IInv, UpAreOutputs, RailsInOrder, BootedIsPowered, AllUp
<1>8. QED
  BY <1>3, <1>5, <1>6, <1>7 DEF IInv

LEMMA OtherIInv ==
    ASSUME IInv,
           \/ Timeout \/ Return \/ Kill \/ NpuAnswers
           \/ \E c \in Commands : Start(c)
           \/ UNCHANGED vars
    PROVE  IInv'
<1>1. Program' = Program
  BY DEF Program
<1>2. CASE Timeout \/ Return \/ Kill
  <2>1. /\ UNCHANGED <<exported, out, line, npu, asked, cmd, pc, retry>>
        /\ status' \in {"failed", "ok", "killed"}
    BY <1>2 DEF Timeout, Return, Kill, Exit
  <2>2. TypeOK' /\ ~Running'
    BY <1>1, <2>1 DEF IInv, TypeOK, Running
  <2>3. QED
    BY <2>1, <2>2, QuietIInv DEF IInv, BootedIsPowered
<1>3. CASE NpuAnswers
  <2>1. /\ UNCHANGED <<exported, out, line, cmd, pc, retry, status>>
        /\ npu # "off" /\ npu' \in {"awake", "asleep"} /\ asked' = FALSE
    BY <1>3 DEF NpuAnswers, Answerable, IInv, BootedIsPowered
  <2>2. TypeOK'
    BY <1>1, <2>1 DEF IInv, TypeOK
  <2>3. QED
    BY <2>1, <2>2, QuietIInv
<1>4. ASSUME NEW c \in Commands, Start(c) PROVE IInv'
  <2>1. /\ UNCHANGED <<exported, out, line, npu, asked>>
        /\ cmd' = c /\ pc' = 1 /\ retry' = Retries /\ status' = "running"
    BY <1>4 DEF Start
  <2>2. 1 \in 1..(Len(Program[c]) + 1)
    BY ProgramOf, InitSteps, ResetSteps, PoweroffSteps, SuspendSteps, ResumeSteps DEF Commands
  <2>3. TypeOK' /\ Running'
    BY <1>1, <2>1, <2>2, RetriesAssumption DEF IInv, TypeOK, Running
  <2>4. QED
    BY <2>1, <2>3, QuietIInv DEF IInv, BootedIsPowered
<1>5. CASE UNCHANGED vars
  <2>1. UNCHANGED <<exported, out, line, cmd, pc, retry, status, npu, asked>>
    BY <1>5 DEF vars
  <2>2. TypeOK'
    BY <1>1, <2>1 DEF IInv, TypeOK
  <2>3. QED
    BY <2>1, <2>2, QuietIInv DEF IInv, BootedIsPowered
<1>6. QED
  BY <1>2, <1>3, <1>4, <1>5

(***************************************************************************)
(* If PMU_SLEEP reads 0 when the NPU does not drive it, no sequence of     *)
(* commands, killed anywhere, with an NPU that answers whenever it likes,  *)
(* brings up a late rail before the first ones.                            *)
(***************************************************************************)
THEOREM Inductive == ASSUME OffReads = {0} PROVE Spec => []IInv
<1>1. IInv /\ [Next]_vars => IInv'
  <2>1. SUFFICES ASSUME IInv, [Next]_vars PROVE IInv'
    OBVIOUS
  <2>2. QED
    BY <2>1, SetIInv, ExportIInv, DirectionIInv, CheckIInv, PollIInv, OtherIInv
    DEF Next, Step
<1>2. QED
  BY <1>1, InitIInv, PTL DEF Spec

(***************************************************************************)
(* Each variable keeps the type the model gives it, pc the bounds of the   *)
(* command that runs.                                                      *)
(***************************************************************************)
THEOREM TypeCorrect == ASSUME OffReads = {0} PROVE Spec => []TypeOK
<1>1. IInv => TypeOK
  BY DEF IInv
<1>2. QED
  BY <1>1, Inductive, PTL

(***************************************************************************)
(* The order of the rails, for any number of polls and any kills.          *)
(***************************************************************************)
THEOREM RailsComeUpInOrder == ASSUME OffReads = {0} PROVE Spec => []RailsInOrder
<1>1. IInv => RailsInOrder
  BY DEF IInv
<1>2. QED
  BY <1>1, Inductive, PTL

(***************************************************************************)
(* What a write does to the NPU.                                           *)
(***************************************************************************)
LEMMA DriveNpu ==
    ASSUME TypeOK, NpuIsFed, NEW l \in Lines, NEW v \in {0, 1}, Drive(l, v)
    PROVE  /\ NpuIsFed'
           /\ npu' = "asleep" => npu = "asleep"
           /\ npu = "asleep" /\ (l \notin KeptAsleep \/ v = 1) => npu' = "asleep"
           /\ npu = "awake" /\ (l \notin Needed \/ v = 1) => npu' = "awake"
           /\ ~(l = "INT" /\ v = 1) => (asked' => asked)
<1> USE LineNames
<1>1. line' = [line EXCEPT ![l] = v] /\ npu' = NpuUnder(line')
  BY Zenon DEF Drive
<1>2. line'[l] = v /\ \A x \in Lines \ {l} : line'[x] = line[x]
  BY <1>1 DEF TypeOK
<1>3. "RESET" \in KeptAsleep
  BY DEF KeptAsleep
<1>4. NpuIsFed'
  BY <1>1 DEF NpuUnder, NpuIsFed, AllUp
<1>5. npu' = "asleep" => npu = "asleep"
  BY <1>1 DEF NpuUnder
<1>6. ASSUME npu = "asleep", l \notin KeptAsleep \/ v = 1
      PROVE  npu' = "asleep"
  <2>1. line["RESET"] = 1 /\ \A x \in KeptAsleep : line'[x] = 1
    BY <1>2, <1>3, <1>6 DEF NpuIsFed, AllUp
  <2>2. QED
    BY <1>1, <1>6, <2>1 DEF NpuUnder
<1>7. ASSUME npu = "awake", l \notin Needed \/ v = 1
      PROVE  npu' = "awake"
  <2>1. \A x \in Needed : line'[x] = 1
    BY <1>2, <1>7 DEF NpuIsFed, AllUp
  <2>2. QED
    BY <1>1, <1>7, <2>1 DEF NpuUnder
<1>8. ASSUME ~(l = "INT" /\ v = 1) PROVE asked' => asked
  BY <1>8, Zenon DEF Drive
<1>9. QED
  BY <1>4, <1>5, <1>6, <1>7, <1>8

LEMMA SetNpu ==
    ASSUME TypeOK, NpuIsFed, set_gpio,
           NEW l \in Lines, NEW v \in {0, 1}, Instr.line = l, Instr.val = v
    PROVE  /\ NpuIsFed'
           /\ npu' = "asleep" => npu = "asleep"
           /\ npu = "asleep" /\ (l \notin KeptAsleep \/ v = 1) => npu' = "asleep"
           /\ npu = "awake" /\ (l \notin Needed \/ v = 1) => npu' = "awake"
           /\ ~(l = "INT" /\ v = 1) => (asked' => asked)
           /\ \A x \in Lines \ {l} : line'[x] = line[x]
           /\ Writable(l) => Drive(l, v) /\ line'[l] = v
           /\ pc' = pc + 1 /\ UNCHANGED <<cmd, retry, status, exported, out>>
<1>1. pc' = pc + 1 /\ UNCHANGED <<cmd, retry, status, exported, out>>
  BY DEF set_gpio, Advance
<1>2. CASE Writable(l)
  <2>1. Drive(l, v)
    BY <1>2 DEF set_gpio
  <2>2. QED
    BY <1>1, <1>2, <2>1, DriveNpu, DriveFacts
<1>3. CASE ~Writable(l)
  <2>1. UNCHANGED <<line, npu, asked>>
    BY <1>3 DEF set_gpio
  <2>2. QED
    BY <1>1, <1>3, <2>1 DEF NpuIsFed, AllUp
<1>4. QED
  BY <1>2, <1>3

(***************************************************************************)
(* Which write each step of the commands makes.                            *)
(***************************************************************************)
LEMMA LateResetWrites ==
    ASSUME TypeOK, AtStep({"set"}), cmd = "-o"
    PROVE  /\ pc \in 1..17 /\ (Instr.line = "INT" => Instr.val = 0)
           /\ pc = 9 => Instr.line = "RESET" /\ Instr.val = 0
           /\ pc \in 10..16 => Instr.line # "RESET"
           /\ pc = 13 => Instr.line = "CLK" /\ Instr.val = 1
           /\ pc = 14 => Instr.line = "VDD_CPU" /\ Instr.val = 1
           /\ pc = 15 => Instr.line = "VCCIO_3V3" /\ Instr.val = 1
           /\ pc = 16 => Instr.line = "VDD" /\ Instr.val = 1
           /\ pc = 17 => Instr.line = "RESET" /\ Instr.val = 1
<1>1. pc \in 1..17 /\ Instr = npu_reset[pc]
  BY ProgramOf, ResetSteps DEF TypeOK, AtStep, Instr
<1>2. QED
  BY <1>1, ResetSteps DEF Low, High

LEMMA PoweroffLowers ==
    ASSUME TypeOK, AtStep({"set"}), cmd = "-d"
    PROVE  Instr.val = 0
BY Writes DEF PoweroffWrites

LEMMA SuspendWrites ==
    ASSUME TypeOK, AtStep({"set"}), cmd = "-s"
    PROVE  /\ pc \in {2, 3, 5, 6, 7}
           /\ pc = 2 => Instr.line = "INT" /\ Instr.val = 1
           /\ pc = 3 => Instr.line = "INT" /\ Instr.val = 0
           /\ pc >= 5 => Instr.line \in {"VDD_CPU", "VDD", "CLK"} /\ Instr.val = 0
<1>1. pc \in 1..7 /\ Instr = npu_suspend[pc] /\ Instr.do = "set"
  BY ProgramOf, SuspendSteps DEF TypeOK, AtStep, Instr
<1>2. ASSUME NEW what, NEW g PROVE Do(what, g).do = what
  BY DEF Do
<1>3. pc \in {2, 3, 5, 6, 7}
  BY <1>1, <1>2, SuspendSteps
<1>4. QED
  BY <1>1, <1>3, SuspendSteps DEF Low, High

LEMMA ResumeWrites ==
    ASSUME TypeOK, AtStep({"set"}), cmd = "-r"
    PROVE  /\ pc \in 2..6
           /\ pc = 2 => Instr.line = "CLK" /\ Instr.val = 1
           /\ pc = 3 => Instr.line = "VDD_CPU" /\ Instr.val = 1
           /\ pc = 4 => Instr.line = "VDD" /\ Instr.val = 1
           /\ pc = 5 => Instr.line = "INT" /\ Instr.val = 1
           /\ pc = 6 => Instr.line = "INT" /\ Instr.val = 0
<1>1. pc \in 1..7 /\ Instr = npu_resume[pc] /\ Instr.do = "set"
  BY ProgramOf, ResumeSteps DEF TypeOK, AtStep, Instr
<1>2. ASSUME NEW what, NEW g PROVE Do(what, g).do = what
  BY DEF Do
<1>3. pc \in 2..6
  BY <1>1, <1>2, ResumeSteps
<1>4. QED
  BY <1>1, <1>3, ResumeSteps DEF Low, High

\* The question whether the NPU sleeps comes first in both commands, the wait
\* for it fourth in a suspend and last in a resume.
LEMMA HandshakePlaces ==
    ASSUME TypeOK
    PROVE  /\ AtStep({"exit_if_asleep", "exit_if_awake"}) =>
                \/ cmd = "-s" /\ pc = 1 /\ Wanted(Instr.do) = 1
                \/ cmd = "-r" /\ pc = 1 /\ Wanted(Instr.do) = 0
           /\ AtPoll =>
                \/ cmd = "-s" /\ pc = 4 /\ Wanted(Instr.do) = 1
                \/ cmd = "-r" /\ pc = 7 /\ Wanted(Instr.do) = 0
<1>1. ASSUME AtStep({"exit_if_asleep", "exit_if_awake", "wait_asleep", "wait_awake"})
      PROVE  cmd \in {"-s", "-r"} /\ pc \in Nat
  BY <1>1, HandshakeOnly
<1>2. ASSUME NEW kinds, AtStep(kinds), cmd = "-s"
      PROVE  pc \in 1..7 /\ Instr = npu_suspend[pc] /\ Instr.do \in kinds
  BY <1>2, ProgramOf, SuspendSteps DEF TypeOK, AtStep, Instr
<1>3. ASSUME NEW kinds, AtStep(kinds), cmd = "-r"
      PROVE  pc \in 1..7 /\ Instr = npu_resume[pc] /\ Instr.do \in kinds
  BY <1>3, ProgramOf, ResumeSteps DEF TypeOK, AtStep, Instr
<1>4. ASSUME AtStep({"exit_if_asleep", "exit_if_awake"})
      PROVE  \/ cmd = "-s" /\ pc = 1 /\ Wanted(Instr.do) = 1
             \/ cmd = "-r" /\ pc = 1 /\ Wanted(Instr.do) = 0
  <2>1. cmd \in {"-s", "-r"}
    BY <1>1, <1>4 DEF AtStep
  <2>2. CASE cmd = "-s"
    BY <1>2, <1>4, <2>2, SuspendSteps DEF Low, High, Do, Wanted
  <2>3. CASE cmd = "-r"
    BY <1>3, <1>4, <2>3, ResumeSteps DEF Low, High, Do, Wanted
  <2>4. QED
    BY <2>1, <2>2, <2>3
<1>5. ASSUME AtPoll
      PROVE  \/ cmd = "-s" /\ pc = 4 /\ Wanted(Instr.do) = 1
             \/ cmd = "-r" /\ pc = 7 /\ Wanted(Instr.do) = 0
  <2>1. cmd \in {"-s", "-r"} /\ AtStep({"wait_asleep", "wait_awake"})
    BY <1>1, <1>5 DEF AtPoll, AtStep
  <2>2. CASE cmd = "-s"
    BY <1>2, <2>1, <2>2, SuspendSteps DEF Low, High, Do, Wanted
  <2>3. CASE cmd = "-r"
    BY <1>3, <2>1, <2>3, ResumeSteps DEF Low, High, Do, Wanted
  <2>4. QED
    BY <2>1, <2>2, <2>3
<1>6. QED
  BY <1>4, <1>5

\* Until the init is over no rail is up, so that there is no NPU to ask.
LEMMA InitIsDark ==
    ASSUME IInv, NpuIsFed,
           set_gpio_dir \/ (request_gpio /\ Instr.line \notin exported)
    PROVE  /\ cmd' = "-i" /\ npu' = "off" /\ ~asked' /\ npu = "off"
<1> USE LineNames
<1>1. /\ Running /\ cmd = "-i" /\ pc \in 1..19 /\ Instr = npu_power_gpio_init[pc]
  BY InitOnly DEF IInv, set_gpio_dir, request_gpio, AtStep
<1>2. AllDown(Rails)
  <2>1. CASE pc = 1
    <3>1. Instr = Do("export", gpio_list[1])
      BY <1>1, <2>1, InitSteps
    <3>2. Instr.do = "export" /\ Instr.line = "VDD_0V8"
      BY <3>1, GpioList DEF Do
    <3>3. Instr.line \notin exported
      BY <3>2 DEF set_gpio_dir, AtStep, Instr
    <3>4. out = {}
      BY <3>2, <3>3 DEF IInv, InitProgress, TypeOK
    <3>5. QED
      BY <3>4 DEF IInv, UpAreOutputs, AllDown, TypeOK
  <2>2. CASE pc # 1
    BY <1>1, <2>2 DEF IInv, InitProgress, Doing
  <2>3. QED
    BY <2>1, <2>2
<1>3. npu = "off" /\ ~asked
  BY <1>2 DEF IInv, BootedIsPowered, AllUp, AllDown, TypeOK, Rails
<1>4. CASE request_gpio
  BY <1>1, <1>3, <1>4 DEF request_gpio, Advance, Exit
<1>5. CASE set_gpio_dir /\ Instr.do = "out"
  <2>1. Drive(Instr.line, 0) /\ cmd' = "-i"
    BY <1>1, <1>5 DEF set_gpio_dir, Advance
  <2>2. Instr.line \in Gpios
    <3>1. pc \in 1..18
      BY <1>1, <1>5, InitSteps DEF Do
    <3>2. Instr = IF pc % 2 = 1 THEN Do("export", gpio_list[(pc + 1) \div 2])
                  ELSE Do("out", gpio_list[pc \div 2])
      BY <1>1, <3>1, InitSteps, Zenon
    <3>3. pc % 2 = 0 /\ Instr.line = gpio_list[pc \div 2]
      BY <1>5, <3>1, <3>2 DEF Do
    <3>4. pc \div 2 \in 1..9
      BY <3>1, <3>3
    <3>5. \A k \in 1..9 : gpio_list[k] \in Gpios
      BY GpioList
    <3>6. QED
      BY <3>3, <3>4, <3>5
  <2>3. /\ \A x \in Lines \ {Instr.line} : line'[x] = line[x]
        /\ line'[Instr.line] = 0
        /\ npu' \in {"off", "awake", "asleep"} /\ asked' \in BOOLEAN
        /\ npu' # "off" => \A x \in FirstRails : line'[x] = 1
        /\ asked' => npu' # "off"
    BY <2>1, <2>2, DriveFacts DEF IInv
  <2>4. QED
    BY <1>2, <1>3, <2>1, <2>3 DEF AllDown, Rails
<1>6. CASE set_gpio_dir /\ Instr.do # "out"
  BY <1>1, <1>3, <1>6 DEF set_gpio_dir, Advance
<1>7. QED
  BY <1>4, <1>5, <1>6

LEMMA FedStays ==
    ASSUME IInv, NpuIsFed, [Next]_vars
    PROVE  NpuIsFed'
<1> USE LineNames DEF NpuIsFed, AllUp
<1>1. CASE set_gpio
  <2>1. Instr.line \in Lines /\ Instr.val \in {0, 1}
    BY <1>1, Writes DEF IInv, set_gpio
  <2>2. QED
    BY <1>1, <2>1, SetNpu DEF IInv
<1>2. CASE set_gpio_dir \/ (request_gpio /\ Instr.line \notin exported)
  BY <1>2, InitIsDark
<1>3. CASE NpuAnswers
  BY <1>3 DEF NpuAnswers, Answerable, IInv, BootedIsPowered, TypeOK
<1>4. CASE request_gpio /\ Instr.line \in exported
  BY <1>4 DEF request_gpio
<1>5. CASE CheckState \/ Poll \/ Timeout \/ Return \/ Kill
  BY <1>5 DEF CheckState, Poll, Timeout, Return, Kill
<1>6. ASSUME NEW c \in Commands, Start(c) PROVE NpuIsFed'
  BY <1>6 DEF Start
<1>7. CASE UNCHANGED vars
  BY <1>7 DEF vars
<1>8. QED
  BY <1>1, <1>2, <1>3, <1>4, <1>5, <1>6, <1>7 DEF Next, Step

(***************************************************************************)
(* npu_reset boots the NPU.                                                *)
(***************************************************************************)
LEMMA ResetWriteBoots ==
    ASSUME IInv, ResetInv, set_gpio, Ready, cmd = "-o"
    PROVE  ResetSoFar'
<1> USE LineNames
<1>1. /\ AtStep({"set"}) /\ Running /\ TypeOK /\ NpuIsFed
      /\ Instr.line \in Lines /\ Instr.val \in {0, 1}
  BY Writes DEF IInv, ResetInv, set_gpio, AtStep
<1>2. /\ pc' = pc + 1 /\ UNCHANGED <<cmd, retry, status, exported, out>>
      /\ \A x \in Lines \ {Instr.line} : line'[x] = line[x]
      /\ Writable(Instr.line) =>
            Drive(Instr.line, Instr.val) /\ line'[Instr.line] = Instr.val
      /\ ~(Instr.line = "INT" /\ Instr.val = 1) => (asked' => asked)
  BY <1>1, SetNpu
<1>3. /\ pc \in 1..17 /\ (Instr.line = "INT" => Instr.val = 0)
      /\ pc = 9 => Instr.line = "RESET" /\ Instr.val = 0
      /\ pc \in 10..16 => Instr.line # "RESET"
      /\ pc = 13 => Instr.line = "CLK" /\ Instr.val = 1
      /\ pc = 14 => Instr.line = "VDD_CPU" /\ Instr.val = 1
      /\ pc = 15 => Instr.line = "VCCIO_3V3" /\ Instr.val = 1
      /\ pc = 16 => Instr.line = "VDD" /\ Instr.val = 1
      /\ pc = 17 => Instr.line = "RESET" /\ Instr.val = 1
  BY <1>1, LateResetWrites
<1>4. \A x \in Rails \cup {"RESET", "CLK"} : Writable(x)
  BY DEF IInv, InitProgress, Ready, Writable
<1>5. {"VDD_CPU", "VCCIO_3V3", "VDD"} \subseteq Rails /\ "RESET" \in Lines
  BY GpioList DEF Rails
<1>6. ResetSoFar
  BY DEF ResetInv
<1>7. Running' /\ pc' \in 10..17 => line'["RESET"] = 0
  BY <1>1, <1>2, <1>3, <1>4, <1>5, <1>6 DEF ResetSoFar
<1>8. /\ pc' >= 14 => line'["CLK"] = 1
      /\ pc' >= 15 => line'["VDD_CPU"] = 1
      /\ pc' >= 16 => line'["VCCIO_3V3"] = 1
      /\ pc' >= 17 => line'["VDD"] = 1
  BY <1>1, <1>2, <1>3, <1>4, <1>5, <1>6 DEF ResetSoFar, Doing
<1>9. ASSUME pc' >= 18 PROVE npu' = "awake" /\ ~asked'
  <2>1. pc = 17 /\ Instr.line = "RESET" /\ Instr.val = 1
    BY <1>2, <1>3, <1>9
  <2>2. line["RESET"] = 0 /\ Drive("RESET", 1) /\ line'["RESET"] = 1
    BY <1>1, <1>2, <1>4, <1>6, <2>1 DEF ResetSoFar
  <2>3. npu = "off"
    BY <1>1, <2>2 DEF NpuIsFed, AllUp, TypeOK, KeptAsleep, Needed
  <2>4. ~asked'
    BY <1>2, <2>1, <2>3 DEF IInv, BootedIsPowered
  <2>5. \A x \in FirstRails : line'[x] = 1
    BY <1>1, <1>2, <2>1 DEF IInv, ResetProgress, Doing, Ready
  <2>6. \A x \in Needed : line'[x] = 1
    BY <1>2, <1>8, <2>1, <2>2, <2>5 DEF Needed, KeptAsleep
  <2>7. npu' = NpuUnder(line')
    BY <2>2, Zenon DEF Drive
  <2>8. npu' = "awake"
    BY <2>2, <2>6, <2>7 DEF NpuUnder
  <2>9. QED
    BY <2>4, <2>8
<1>10. status' # "ok"
  BY <1>1, <1>2 DEF Running
<1>11. QED
  BY <1>7, <1>8, <1>9, <1>10 DEF ResetSoFar, Doing

LEMMA ResetKept ==
    ASSUME IInv, ResetInv, [Next]_vars
    PROVE  ResetInv'
<1>1. NpuIsFed'
  BY FedStays DEF ResetInv
<1>2. SUFFICES ASSUME Ready', cmd' = "-o" PROVE ResetSoFar'
  BY <1>1 DEF ResetInv
<1> USE <1>2
<1>3. CASE set_gpio
  <2>1. Ready /\ cmd = "-o"
    BY <1>3 DEF set_gpio, Advance, Ready
  <2>2. QED
    BY <1>3, <2>1, ResetWriteBoots
<1>4. CASE set_gpio_dir \/ (request_gpio /\ Instr.line \notin exported)
  BY <1>4, InitIsDark DEF ResetInv
<1>5. CASE request_gpio /\ Instr.line \in exported
  <2>1. cmd = "-i" /\ cmd' = cmd
    BY <1>5, InitOnly DEF IInv, request_gpio, AtStep, Exit
  <2>2. QED
    BY <2>1
<1>6. CASE CheckState \/ Poll \/ Timeout
  <2>1. cmd \in {"-s", "-r"}
    BY <1>6, HandshakePlaces DEF IInv, CheckState, Poll, Timeout
  <2>2. cmd' = cmd
    BY <1>6 DEF CheckState, Poll, Timeout, Advance, Exit
  <2>3. QED
    BY <2>1, <2>2
<1>7. CASE Return
  <2>1. UNCHANGED <<exported, out, line, npu, asked, cmd, pc>> /\ status' = "ok"
    BY <1>7 DEF Return, Exit
  <2>2. Running /\ pc >= 18
    <3>1. Len(Program[cmd]) = 17
      BY <2>1, ProgramOf, ResetSteps
    <3>2. pc \in 1..18
      BY <3>1 DEF IInv, TypeOK
    <3>3. QED
      BY <1>7, <3>1, <3>2 DEF Return
  <2>3. ResetSoFar
    BY <2>1 DEF ResetInv, Ready
  <2>4. npu = "awake" /\ ~asked
    BY <2>1, <2>2, <2>3 DEF ResetSoFar, Doing
  <2>5. QED
    BY <2>1, <2>4 DEF ResetSoFar, Doing, Running
<1>8. CASE Kill
  BY <1>8 DEF Kill, Exit, ResetSoFar, Doing, Running
<1>9. CASE NpuAnswers
  <2>1. UNCHANGED <<exported, out, line, cmd, pc, retry, status>> /\ asked
    BY <1>9 DEF NpuAnswers, Answerable
  <2>2. ResetSoFar
    BY <2>1 DEF ResetInv, Ready
  <2>3. QED
    BY <2>1, <2>2 DEF ResetSoFar, Doing, Running
<1>10. ASSUME NEW c \in Commands, Start(c) PROVE ResetSoFar'
  BY <1>10 DEF Start, ResetSoFar, Doing
<1>11. CASE UNCHANGED vars
  BY <1>11 DEF vars, ResetInv, Ready, ResetSoFar, Doing, Running
<1>12. QED
  BY <1>3, <1>4, <1>5, <1>6, <1>7, <1>8, <1>9, <1>10, <1>11 DEF Next, Step

(***************************************************************************)
(* npu_reset ends with the NPU running, whatever state it starts from.     *)
(***************************************************************************)
THEOREM PowerUp == ASSUME OffReads = {0} PROVE Spec => []PowerUpWorks
<1>1. Init => ResetInv
  BY DEF Init, ResetInv, NpuIsFed, Ready
<1>2. IInv /\ ResetInv /\ [Next]_vars => ResetInv'
  BY ResetKept
<1>3. ResetInv => PowerUpWorks
  BY DEF ResetInv, ResetSoFar, PowerUpWorks
<1>4. Spec => []IInv
  BY Inductive
<1>5. QED
  BY <1>1, <1>2, <1>3, <1>4, PTL DEF Spec

(***************************************************************************)
(* The handshake.  PMU_SLEEP tells whether the NPU sleeps.                 *)
(***************************************************************************)
LEMMA LevelTells ==
    ASSUME OffReads = {0}, TypeOK, Ready, NEW level \in get_gpio
    PROVE  (level = 1 <=> npu = "asleep") /\ level \in {0, 1}
BY DEF get_gpio, Ready, TypeOK

LEMMA SuspendWriteKeeps ==
    ASSUME IInv, HandshakeInv, set_gpio, Ready, ~overtook, cmd = "-s"
    PROVE  AskedOnce'
<1> USE LineNames
<1>1. /\ AtStep({"set"}) /\ Running /\ TypeOK /\ NpuIsFed
      /\ Instr.line \in Lines /\ Instr.val \in {0, 1}
  BY Writes DEF IInv, HandshakeInv, set_gpio, AtStep
<1>2. /\ npu' = "asleep" => npu = "asleep"
      /\ npu = "asleep" /\ Instr.line \notin KeptAsleep => npu' = "asleep"
      /\ ~(Instr.line = "INT" /\ Instr.val = 1) => (asked' => asked)
      /\ pc' = pc + 1 /\ UNCHANGED <<cmd, retry, status, exported, out>>
  BY <1>1, SetNpu
<1>3. /\ pc \in {2, 3, 5, 6, 7}
      /\ pc = 3 => Instr.line = "INT" /\ Instr.val = 0
      /\ pc >= 5 => Instr.line \in {"VDD_CPU", "VDD", "CLK"} /\ Instr.val = 0
  BY <1>1, SuspendWrites
<1>4. SuspendSoFar
  BY <1>1, <1>3 DEF HandshakeInv, AskedOnce, Doing
<1>5. npu' = "asleep" => ~asked'
  BY <1>2, <1>3, <1>4 DEF SuspendSoFar
<1>6. pc >= 5 => npu' = "asleep"
  <2>1. {"VDD_CPU", "VDD", "CLK"} \cap KeptAsleep = {}
    BY DEF KeptAsleep
  <2>2. QED
    BY <1>2, <1>3, <1>4, <2>1 DEF SuspendSoFar
<1>7. SuspendSoFar'
  BY <1>2, <1>3, <1>5, <1>6 DEF SuspendSoFar
<1>8. QED
  BY <1>2, <1>3, <1>5, <1>7 DEF AskedOnce, Doing

LEMMA ResumeWriteKeeps ==
    ASSUME IInv, HandshakeInv, set_gpio, Ready, ~overtook, cmd = "-r"
    PROVE  AskedOnce'
<1> USE LineNames
<1>1. /\ AtStep({"set"}) /\ Running /\ TypeOK /\ NpuIsFed
      /\ Instr.line \in Lines /\ Instr.val \in {0, 1}
  BY Writes DEF IInv, HandshakeInv, set_gpio, AtStep
<1>2. /\ NpuIsFed'
      /\ npu' = "asleep" => npu = "asleep"
      /\ npu = "asleep" /\ (Instr.line \notin KeptAsleep \/ Instr.val = 1) => npu' = "asleep"
      /\ npu = "awake" /\ (Instr.line \notin Needed \/ Instr.val = 1) => npu' = "awake"
      /\ ~(Instr.line = "INT" /\ Instr.val = 1) => (asked' => asked)
      /\ \A x \in Lines \ {Instr.line} : line'[x] = line[x]
      /\ Writable(Instr.line) => line'[Instr.line] = Instr.val
      /\ pc' = pc + 1 /\ UNCHANGED <<cmd, retry, status, exported, out>>
  BY <1>1, SetNpu
<1>3. /\ pc \in 2..6
      /\ pc = 2 => Instr.line = "CLK" /\ Instr.val = 1
      /\ pc = 3 => Instr.line = "VDD_CPU" /\ Instr.val = 1
      /\ pc = 4 => Instr.line = "VDD" /\ Instr.val = 1
      /\ pc = 5 => Instr.line = "INT" /\ Instr.val = 1
      /\ pc = 6 => Instr.line = "INT" /\ Instr.val = 0
  BY <1>1, ResumeWrites
<1>4. ResumeSoFar
  BY <1>1, <1>3 DEF HandshakeInv, AskedOnce, Doing
<1>5. \A x \in {"CLK", "VDD_CPU", "VDD"} : Writable(x) /\ x \in Lines
  BY GpioList DEF IInv, InitProgress, Ready, Writable, Rails
<1>6. /\ pc' >= 3 => line'["CLK"] = 1
      /\ pc' >= 4 => line'["VDD_CPU"] = 1
      /\ pc' >= 5 => line'["VDD"] = 1
  BY <1>2, <1>3, <1>4, <1>5 DEF ResumeSoFar
<1>7. "INT" \notin Needed /\ "INT" \notin KeptAsleep
  BY DEF Needed, KeptAsleep
<1>8. pc' <= 5 => npu' = "asleep" /\ ~asked'
  BY <1>2, <1>3, <1>4 DEF ResumeSoFar
<1>9. pc' = 6 => npu' = "asleep"
  BY <1>2, <1>3, <1>4 DEF ResumeSoFar
<1>10. pc' = 7 => npu' # "off" /\ (npu' = "awake" => ~asked')
  <2>1. ASSUME pc' = 7 PROVE npu' # "off" /\ (npu' = "awake" => ~asked')
    <3>1. pc = 6 /\ (asked' => asked)
      BY <1>2, <1>3, <2>1
    <3>2. npu \in {"awake", "asleep"} /\ (npu = "awake" => ~asked)
      BY <1>1, <1>4, <3>1 DEF ResumeSoFar, TypeOK
    <3>3. npu' = npu
      BY <1>2, <1>3, <1>7, <3>1, <3>2
    <3>4. QED
      BY <3>1, <3>2, <3>3
  <2>2. QED
    BY <2>1
<1>11. ResumeSoFar'
  BY <1>2, <1>3, <1>6, <1>8, <1>9, <1>10 DEF ResumeSoFar
<1>12. QED
  BY <1>1, <1>2, <1>3, <1>11 DEF AskedOnce, Doing, Running

LEMMA PowerWriteKeeps ==
    ASSUME IInv, HandshakeInv, set_gpio, Ready, ~overtook, cmd \in {"-o", "-d"}
    PROVE  AskedOnce'
<1>1. /\ AtStep({"set"}) /\ Running /\ TypeOK /\ NpuIsFed
      /\ Instr.line \in Lines /\ Instr.val \in {0, 1}
  BY Writes DEF IInv, HandshakeInv, set_gpio, AtStep
<1>2. /\ ~(Instr.line = "INT" /\ Instr.val = 1) => (asked' => asked)
      /\ UNCHANGED <<cmd, status>>
  BY <1>1, SetNpu
<1>3. ~(Instr.line = "INT" /\ Instr.val = 1)
  BY <1>1, LateResetWrites, PoweroffLowers
<1>4. ~asked
  BY <1>1 DEF HandshakeInv, AskedOnce
<1>5. QED
  BY <1>2, <1>3, <1>4 DEF AskedOnce, Doing

\* What a command learns from PMU_SLEEP, asked first or waited for.
LEMMA ReadKeeps ==
    ASSUME OffReads = {0}, IInv, HandshakeInv, Ready, ~overtook, CheckState \/ Poll
    PROVE  AskedOnce'
<1>1. /\ UNCHANGED <<exported, out, line, npu, asked, cmd>> /\ Running /\ AskedOnce
      /\ pc \in Nat
  BY HandshakeOnly DEF CheckState, Poll, AtPoll, AtStep, Advance, Exit, HandshakeInv, IInv
<1>2. CASE CheckState
  <2>1. /\ pc = 1 /\ ~asked
        /\ \/ cmd = "-s" /\ Wanted(Instr.do) = 1
           \/ cmd = "-r" /\ Wanted(Instr.do) = 0
    BY <1>1, <1>2, HandshakePlaces DEF IInv, CheckState, AskedOnce
  <2>2. PICK level \in get_gpio :
            IF level = Wanted(Instr.do) THEN Exit("ok") ELSE Advance
    BY <1>2 DEF CheckState
  <2>3. (level = 1 <=> npu = "asleep") /\ level \in {0, 1}
    BY LevelTells DEF IInv
  <2>4. CASE level = Wanted(Instr.do)
    <3>1. status' = "ok"
      BY <2>2, <2>4 DEF Exit
    <3>2. QED
      BY <1>1, <2>1, <2>3, <2>4, <3>1 DEF AskedOnce, Doing, Running, AllUp
  <2>5. CASE level # Wanted(Instr.do)
    <3>1. pc' = 2 /\ status' = status
      BY <2>1, <2>2, <2>5 DEF Advance
    <3>2. QED
      BY <1>1, <2>1, <2>3, <2>5, <3>1
      DEF AskedOnce, SuspendSoFar, ResumeSoFar, Doing, Running
  <2>6. QED
    BY <2>4, <2>5
<1>3. CASE Poll
  <2>1. \/ cmd = "-s" /\ pc = 4 /\ Wanted(Instr.do) = 1
        \/ cmd = "-r" /\ pc = 7 /\ Wanted(Instr.do) = 0
    BY <1>3, HandshakePlaces DEF IInv, Poll
  <2>2. PICK level \in get_gpio :
            pc' = IF level = Wanted(Instr.do) THEN pc + 1 ELSE pc
    BY <1>3 DEF Poll
  <2>3. (level = 1 <=> npu = "asleep") /\ level \in {0, 1}
    BY LevelTells DEF IInv
  <2>4. status' = status
    BY <1>3 DEF Poll
  <2>5. CASE cmd = "-s"
    <3>1. SuspendSoFar /\ pc' \in {4, 5} /\ (pc' = 5 => npu = "asleep")
      BY <1>1, <2>1, <2>2, <2>3, <2>5 DEF AskedOnce, Doing
    <3>2. SuspendSoFar'
      BY <1>1, <3>1 DEF SuspendSoFar
    <3>3. QED
      BY <1>1, <2>4, <2>5, <3>1, <3>2 DEF AskedOnce, Doing, AllUp
  <2>6. CASE cmd = "-r"
    <3>1. pc = 7 /\ ResumeSoFar /\ pc' \in {7, 8} /\ (pc' = 8 => npu # "asleep")
      BY <1>1, <2>1, <2>2, <2>3, <2>6 DEF AskedOnce, Doing
    <3>2. ResumeSoFar'
      BY <1>1, <3>1 DEF ResumeSoFar
    <3>3. status' # "ok"
      BY <1>1, <2>4 DEF Running
    <3>4. QED
      BY <1>1, <2>4, <2>6, <3>1, <3>2, <3>3 DEF AskedOnce, Doing, AllUp
  <2>7. QED
    BY <2>1, <2>5, <2>6
<1>4. QED
  BY <1>2, <1>3

LEMMA ReturnKeeps ==
    ASSUME IInv, HandshakeInv, Ready, ~overtook, Return
    PROVE  AskedOnce'
<1>1. /\ UNCHANGED <<exported, out, line, npu, asked, cmd, pc>> /\ status' = "ok"
      /\ Running /\ AskedOnce
  BY DEF Return, Exit, HandshakeInv
<1>2. CASE cmd = "-r"
  <2>1. Len(Program[cmd]) = 7
    BY <1>2, ProgramOf, ResumeSteps
  <2>2. pc = 8
    BY <2>1 DEF IInv, TypeOK, Return
  <2>3. npu # "asleep" /\ npu # "off" /\ (npu = "awake" => ~asked)
    BY <1>1, <1>2, <2>2 DEF AskedOnce, Doing, ResumeSoFar
  <2>4. npu # "asleep" /\ ~asked
    BY <2>3 DEF IInv, TypeOK
  <2>5. QED
    BY <1>1, <2>4 DEF AskedOnce, Doing, Running
<1>3. CASE cmd # "-r"
  BY <1>1, <1>3 DEF AskedOnce, Doing, Running, AllUp
<1>4. QED
  BY <1>2, <1>3

LEMMA AnswerKeeps ==
    ASSUME IInv, HandshakeInv, Ready, ~overtook, NpuAnswers
    PROVE  AskedOnce'
<1>1. /\ UNCHANGED <<exported, out, line, cmd, pc, retry, status>>
      /\ asked /\ asked' = FALSE /\ AskedOnce
      /\ npu' = IF npu = "awake" THEN "asleep" ELSE "awake"
  BY DEF NpuAnswers, Answerable, HandshakeInv
<1>2. npu \in {"awake", "asleep"}
  BY <1>1 DEF IInv, TypeOK, BootedIsPowered
<1>3. ASSUME Doing("-s", 2) PROVE SuspendSoFar'
  <2>1. SuspendSoFar /\ pc \in Nat
    BY <1>1, <1>3 DEF AskedOnce, IInv, TypeOK
  <2>2. QED
    BY <1>1, <1>2, <2>1 DEF SuspendSoFar
<1>4. ASSUME Doing("-r", 2) PROVE ResumeSoFar'
  <2>1. ResumeSoFar /\ pc \in Nat
    BY <1>1, <1>4 DEF AskedOnce, IInv, TypeOK
  <2>2. QED
    BY <1>1, <1>2, <2>1 DEF ResumeSoFar
<1>5. QED
  BY <1>1, <1>3, <1>4 DEF AskedOnce, Doing, Running

LEMMA HandshakeKept ==
    ASSUME OffReads = {0}, IInv, HandshakeInv, [Next]_vars
    PROVE  HandshakeInv'
<1>1. NpuIsFed'
  BY FedStays DEF HandshakeInv
<1>2. SUFFICES ASSUME Ready', ~overtook' PROVE AskedOnce'
  BY <1>1 DEF HandshakeInv
<1> USE <1>2
<1>a. UNCHANGED overtook \/ \E c \in Commands : Start(c)
  BY DEF Next, vars
<1>3. CASE set_gpio /\ ~overtook
  <2>1. Ready
    BY <1>3 DEF set_gpio, Ready
  <2>2. cmd \in {"-o", "-d", "-s", "-r"}
    BY <1>3, Writes DEF IInv, set_gpio
  <2>3. QED
    BY <1>3, <2>1, <2>2, PowerWriteKeeps, SuspendWriteKeeps, ResumeWriteKeeps
<1>4. CASE set_gpio_dir \/ (request_gpio /\ Instr.line \notin exported)
  <2>1. cmd' = "-i" /\ npu' = "off" /\ ~asked'
    BY <1>4, InitIsDark DEF HandshakeInv
  <2>2. QED
    BY <2>1 DEF AskedOnce, Doing
<1>5. CASE request_gpio /\ Instr.line \in exported /\ ~overtook
  <2>1. cmd = "-i" /\ UNCHANGED <<exported, out, line, npu, asked, cmd>> /\ status' = "ok"
    BY <1>5, InitOnly DEF IInv, request_gpio, AtStep, Exit
  <2>2. AskedOnce
    BY <1>5, <2>1 DEF HandshakeInv, Ready
  <2>3. QED
    BY <2>1, <2>2 DEF AskedOnce, Doing, Running, AllUp
<1>6. CASE (CheckState \/ Poll) /\ ~overtook
  <2>1. Ready
    BY <1>6 DEF CheckState, Poll, Ready
  <2>2. QED
    BY <1>6, <2>1, ReadKeeps
<1>7. CASE (Timeout \/ Kill) /\ ~overtook
  <2>1. /\ UNCHANGED <<exported, out, line, npu, asked, cmd>>
        /\ status' \in {"failed", "killed"}
    BY <1>7 DEF Timeout, Kill, Exit
  <2>2. AskedOnce
    BY <1>7, <2>1 DEF HandshakeInv, Ready
  <2>3. QED
    BY <2>1, <2>2 DEF AskedOnce, Doing, Running, AllUp
<1>8. CASE Return /\ ~overtook
  BY <1>8, ReturnKeeps DEF Return, Ready
<1>9. CASE NpuAnswers /\ ~overtook
  BY <1>9, AnswerKeeps DEF NpuAnswers, Ready
<1>10. ASSUME NEW c \in Commands, Start(c) PROVE AskedOnce'
  <2>1. /\ UNCHANGED <<exported, out, line, npu, asked>>
        /\ pc' = 1 /\ status' = "running" /\ overtook' = asked
    BY <1>10 DEF Start
  <2>2. QED
    BY <2>1 DEF AskedOnce, Doing
<1>11. CASE UNCHANGED vars
  BY <1>11 DEF vars, HandshakeInv, Ready, AskedOnce, SuspendSoFar, ResumeSoFar,
               Doing, Running, AllUp
<1>12. QED
  BY <1>a, <1>3, <1>4, <1>5, <1>6, <1>7, <1>8, <1>9, <1>10, <1>11 DEF Next, Step

\* The inductive invariant of the handshake, for an NPU that answers when it
\* likes.
THEOREM Handshake ==
    ASSUME OffReads = {0}
    PROVE  Spec => []HandshakeInv
<1>1. Init => HandshakeInv
  BY DEF Init, HandshakeInv, NpuIsFed, Ready
<1>2. IInv /\ HandshakeInv /\ [Next]_vars => HandshakeInv'
  BY HandshakeKept
<1>3. Spec => []IInv
  BY Inductive
<1>4. QED
  BY <1>1, <1>2, <1>3, PTL DEF Spec

(***************************************************************************)
(* npu_resume that exits with 0 leaves no NPU asleep, if no question was   *)
(* open when it began.                                                     *)
(***************************************************************************)
THEOREM ResumeWakesNpu ==
    ASSUME OffReads = {0}
    PROVE  Spec => []ResumeWakes
<1>1. HandshakeInv => ResumeWakes
  BY DEF HandshakeInv, AskedOnce, ResumeWakes
<1>2. QED
  BY <1>1, Handshake, PTL

(***************************************************************************)
(* npu_suspend and npu_resume cut nothing a running NPU needs: npu_suspend *)
(* is past its wait only when the NPU sleeps, if no question was open when *)
(* it began.                                                               *)
(***************************************************************************)
THEOREM OnlyTakenDownOnPurpose ==
    ASSUME OffReads = {0}
    PROVE  Spec => TakenDownOnPurpose
<1> USE LineNames
<1>1. ASSUME IInv, HandshakeInv, [Next]_vars, Ready, ~overtook,
             npu = "awake", npu' = "off"
      PROVE  cmd \in {"-o", "-d"}
  <2> USE <1>1
  <2>1. CASE set_gpio
    <3>1. /\ AtStep({"set"}) /\ Running /\ TypeOK /\ NpuIsFed
          /\ Instr.line \in Lines /\ Instr.val \in {0, 1}
          /\ cmd \in {"-o", "-d", "-s", "-r"}
      BY <2>1, Writes DEF IInv, HandshakeInv, set_gpio, AtStep
    <3>2. Instr.line \in Needed /\ Instr.val = 0
      BY <2>1, <3>1, SetNpu
    <3>3. Instr.line # "INT"
      BY <3>2 DEF Needed, KeptAsleep
    <3>4. cmd # "-r"
      BY <3>1, <3>2, <3>3, ResumeWrites
    <3>5. CASE cmd = "-s"
      <4>1. pc \in {5, 6, 7}
        BY <3>1, <3>3, <3>5, SuspendWrites
      <4>2. SuspendSoFar
        BY <3>1, <3>5, <4>1 DEF HandshakeInv, AskedOnce, Doing
      <4>3. QED
        BY <4>1, <4>2 DEF SuspendSoFar
    <3>6. QED
      BY <3>1, <3>4, <3>5
  <2>2. CASE set_gpio_dir \/ (request_gpio /\ Instr.line \notin exported)
    BY <2>2, InitIsDark DEF HandshakeInv
  <2>3. CASE NpuAnswers
    BY <2>3 DEF NpuAnswers
  <2>4. CASE \/ CheckState \/ Poll \/ Timeout \/ Return \/ Kill
             \/ (request_gpio /\ Instr.line \in exported)
             \/ (\E c \in Commands : Start(c)) \/ UNCHANGED vars
    <3>1. npu' = npu
      BY <2>4 DEF CheckState, Poll, Timeout, Return, Kill, request_gpio, Start, vars
    <3>2. QED
      BY <3>1
  <2>5. QED
    BY <2>1, <2>2, <2>3, <2>4 DEF Next, Step
<1>2. IInv /\ HandshakeInv /\ [Next]_vars =>
        [Ready /\ ~overtook /\ npu = "awake" /\ npu' = "off" => cmd \in {"-o", "-d"}]_vars
  BY <1>1
<1>3. Spec => []IInv
  BY Inductive
<1>4. QED
  BY <1>2, <1>3, Handshake, PTL DEF Spec, TakenDownOnPurpose
=============================================================================
