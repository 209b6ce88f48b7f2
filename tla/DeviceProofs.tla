---------------------------- MODULE DeviceProofs ----------------------------
(***************************************************************************)
(* The drivers of the devices: what block_read promises, for every drive    *)
(* and every width of its registers; what the console shows, for every      *)
(* screen and font; what the keyboard driver is told by the xHCI driver,    *)
(* for every length of its rings.                                           *)
(***************************************************************************)
EXTENDS Block, Console, Xhci, NumberLemmas, SequenceTheorems

-----------------------------------------------------------------------------
(* The block device.                                                        *)
(* The registers hold the digits of the address: the drive reads it back.   *)
LEMMA AddressRead ==
    ASSUME NEW lba \in Nat, lba < Space
    PROVE  LET r == Addressed(lba, 0)
           IN  r.lo + BYTE * (r.mid + BYTE * (r.hi + BYTE * r.lba4)) = lba
<1> DEFINE B == BYTE
           q1 == lba \div B
           q2 == lba \div (B * B)
           q3 == lba \div (B * B * B)
           lo == lba % B
           mid == q1 % B
           hi == q2 % B
<1>1. B \in Nat \ {0} /\ NIBBLE \in Nat \ {0} /\ B * B \in Nat \ {0} /\ B * B * B \in Nat \ {0}
  BY BlockAssumption
<1>2. q2 = q1 \div B /\ q3 = q2 \div B
  BY <1>1, QuotientTwice
<1>3. q1 \in Nat /\ q2 \in Nat /\ q3 \in Nat /\ lo \in Nat /\ mid \in Nat /\ hi \in Nat
  <2>1. \A d \in Nat \ {0}, a \in Nat : a \div d \in Nat /\ a % d \in 0 .. d - 1
    BY Digit, Zenon
  <2>2. \A a \in Nat : a % B \in Nat
    BY <1>1, <2>1
  <2>3. q1 \in Nat /\ q2 \in Nat /\ q3 \in Nat
    BY <1>1, <2>1, Zenon
  <2> QED BY <2>2, <2>3
<1>4. lba = B * q1 + lo /\ q1 = B * q2 + mid /\ q2 = B * q3 + hi
  <2> HIDE DEF B
  <2>1. \A a \in Nat : a = B * (a \div B) + (a % B)
    BY <1>1, Digit, Zenon
  <2> QED BY <1>2, <1>3, <2>1
<1>5. q3 % NIBBLE = q3
  <2>1. lba = (B * B * B) * q3 + (lba % (B * B * B)) /\ lba % (B * B * B) \in Nat
    <3> DEFINE C == B * B * B
    <3>1. C \in Nat \ {0}
      BY <1>1
    <3> HIDE DEF C
    <3>2. lba = C * (lba \div C) + (lba % C) /\ lba % C \in 0 .. C - 1
      BY <3>1, Digit, Zenon
    <3>3. lba % C \in Nat
      BY <3>1, <3>2
    <3> QED BY <3>2, <3>3 DEF C
  <2>2. Space = (B * B * B) * NIBBLE
    BY <1>1 DEF Space
  <2> HIDE DEF B, q1, q2, q3, lo, mid, hi
  <2>3. ASSUME NIBBLE <= q3 PROVE FALSE
    <3>1. (B * B * B) * NIBBLE <= (B * B * B) * q3
      BY <1>1, <1>3, <2>3, ProductGrows
    <3>2. (B * B * B) * q3 \in Nat /\ (B * B * B) * NIBBLE \in Nat
      BY <1>1, <1>3
    <3> QED BY <2>1, <2>2, <3>1, <3>2
  <2>4. q3 < NIBBLE
    BY <1>1, <1>3, <2>3
  <2> QED BY <1>1, <1>3, <2>4
<1>6. lo + B * (mid + B * (hi + B * q3)) = lba
  <2> HIDE DEF B, q1, q2, q3, lo, mid, hi
  <2> QED BY <1>4, <1>3, <1>1
<1> QED BY <1>5, <1>6 DEF Addressed
-----------------------------------------------------------------------------
(* The inductive invariant: what the driver may know at each of its steps.  *)
InitSteps == {"init_ready", "identify", "id_ready", "id_check", "id_drq", "id_data"}
ReadSteps == {"ready", "command", "issue", "drq", "data"}
Registers == [dev : Nat, lba4 : Nat, count : Nat, lo : Nat, mid : Nat, hi : Nat]

(* The shapes of the state; a call that is done leaves nothing behind.      *)
OpShape ==
    \/ op = NoOp
    \/ op = [pc |-> "reset"]
    \/ op \in [pc : InitSteps, op : {"init"}, lba : {0}, count : {0}, dst : {<<>>}]
    \/ op \in [pc : ReadSteps, op : {"read"}, lba : Nat, count : 1 .. COUNTS, dst : Seq(Nat)]

Shapes ==
    /\ kind \in Kinds /\ present \in BOOLEAN /\ faults \in Int /\ faults <= Faults
    /\ drive = [state |-> drive.state, todo |-> drive.todo]
    /\ drive.state \in {"absent", "idle", "busy", "hung", "drq", "error"}
    /\ regs \in Registers
    /\ OpShape

(* Only a fault makes a drive hang, or a drive that knows the command fail. *)
Honest ==
    /\ kind = "none" <=> drive.state = "absent"
    /\ faults = Faults => drive.state # "hung" /\ (drive.state = "error" => kind = "atapi")

(* What is found is an ATA drive with LBA, and without a fault it is found. *)
Found ==
    /\ op.pc \in InitSteps \cup {"reset"} => ~present /\ ret = NoRet
    /\ op.pc \notin InitSteps \cup {"reset"} => 
          (present => kind = "ata") /\ (faults = Faults /\ kind = "ata" => present)

(* The drive at each step of the identification.                            *)
Identifying ==
    /\ op.pc = "reset" => drive.state \in {"absent", "idle"}
    /\ op.pc = "init_ready" => drive.todo = <<>> /\ drive.state # "drq"
    /\ op.pc = "identify" => drive.state \in {"absent", "idle", "error"}
    /\ op.pc \in {"id_ready", "id_check", "id_drq", "id_data"} =>
          /\ drive.state \in {"busy", "hung", "drq", "error"}
          /\ drive.state \in {"busy", "drq"} => drive.todo = <<"id">>
          /\ kind = "atapi" => drive.state = "error" /\ regs.mid # 0 
          /\ kind # "atapi" => regs.mid = 0 /\ regs.hi = 0
    /\ op.pc \in {"id_check", "id_drq"} => drive.state \in {"drq", "error"}
    /\ op.pc \in {"id_drq", "id_data"} => kind # "atapi"
    /\ op.pc = "id_data" => drive.state = "drq"

(* The drive at each step of a read: what it has still to give follows what *)
(* dst has.                                                                 *)
Reading ==
    /\ op.pc \in ReadSteps => present /\ op.lba < Space
    /\ op.pc = "idle" => drive.state \in {"absent", "idle", "error", "hung"}
    /\ op.pc \in {"ready", "command", "issue"} => drive.state \in {"idle", "error", "hung"} /\ op.dst = <<>>
    /\ op.pc \in {"command", "issue"} => drive.state # "hung"
    /\ op.pc = "issue" => regs = Addressed(op.lba, op.count)
    /\ op.pc \in {"drq", "data"} => drive.state \in {"busy", "hung", "drq", "error"}
    /\ op.pc \in {"drq", "data"} /\ drive.state \in {"busy", "drq"} => 
          /\ drive.todo \in Seq(Nat) /\ Len(op.dst) < op.count
          /\ Len(drive.todo) = op.count - Len(op.dst)
          /\ \A i \in 1 .. Len(op.dst) : op.dst[i] = op.lba + i - 1
          /\ \A i \in 1 .. Len(drive.todo) : drive.todo[i] = op.lba + Len(op.dst) + i - 1
    /\ op.pc = "data" => drive.state = "drq"

(* The answers so far.                                                      *)
RetShape ==
    ret = NoRet \/ ret \in [op : {"init", "read"}, ok : BOOLEAN, lba : Nat, count : Nat, dst : Seq(Nat)]

Answers ==
    /\ RetShape
    /\ Faithful

IInv == Shapes /\ Honest /\ Found /\ Identifying /\ Reading /\ Answers

LEMMA InitInv == Init => IInv
<1> SUFFICES ASSUME Init PROVE IInv
  OBVIOUS
<1> USE DEF Init, NoOp, NoRet, InitSteps, ReadSteps
<1>1. regs \in Registers
  BY DEF NoRegs, Registers
<1>2. Shapes
  <2>1. kind \in Kinds /\ present \in BOOLEAN
    OBVIOUS
  <2>2. faults \in Int /\ faults <= Faults
    BY BlockAssumption
  <2>3. drive = [state |-> drive.state, todo |-> drive.todo] /\ drive.state \in {"absent", "idle"}
    BY DEF Resting
  <2> QED BY <1>1, <2>1, <2>2, <2>3 DEF Shapes, OpShape
<1>5. Honest
  BY DEF Honest, Resting
<1>3. Found /\ Identifying /\ Reading
  BY DEF Found, Identifying, Reading, Resting
<1>4. Answers
  BY DEF Answers, RetShape, Faithful, Whole, Exact
<1> QED BY <1>2, <1>3, <1>4, <1>5 DEF IInv

LEMMA DriveInv == IInv /\ Drive => IInv'
<1> SUFFICES ASSUME IInv, Drive PROVE IInv'
  OBVIOUS
<1> USE DEF NoOp, NoRet, InitSteps, ReadSteps, Registers
<1>1. UNCHANGED <<kind, regs, present, op, ret>> /\ faults' \in Int /\ faults' <= faults /\ drive.state = "busy"
      /\ drive' = [state |-> drive'.state, todo |-> drive'.todo]
  BY DEF Drive, DriveReady, DriveFails, IInv, Shapes
<1>2. \/ drive'.todo = drive.todo /\ drive'.state = "hung" /\ faults' # Faults
      \/ drive'.todo = <<>> /\ drive'.state = "error" /\ faults' # Faults
      \/ faults' = faults /\ drive'.todo = drive.todo /\ drive.todo = <<>> /\ drive'.state = Resting
      \/ faults' = faults /\ drive'.todo = drive.todo /\ drive.todo # <<>> /\ drive'.state = "drq"
  BY BlockAssumption DEF Drive, DriveReady, DriveFails, IInv, Shapes
<1>3. op.pc \in {"init_ready", "id_ready", "drq"} /\ (drive.todo = <<>> <=> op.pc = "init_ready")
  <2>1. op.pc \in {"init_ready", "id_ready", "drq"}
    BY <1>1 DEF IInv, Shapes, OpShape, Identifying, Reading
  <2>2. op.pc = "id_ready" => drive.todo # <<>>
    BY <1>1 DEF IInv, Identifying
  <2>3. op.pc = "drq" => drive.todo # <<>>
    <3>1. op.pc = "drq" => Len(drive.todo) > 0
      BY <1>1 DEF IInv, Reading, Shapes, OpShape
    <3> QED BY <3>1
  <2>4. op.pc = "init_ready" => drive.todo = <<>>
    BY <1>1 DEF IInv, Identifying
  <2> QED BY <2>1, <2>2, <2>3, <2>4
<1>4. Shapes'
  <2>1. OpShape'
    BY <1>1 DEF IInv, Shapes, OpShape
  <2>2. drive'.state \in {"absent", "idle", "hung", "drq", "error"}
    BY <1>2 DEF Resting
  <2> QED BY <1>1, <2>1, <2>2, BlockAssumption DEF IInv, Shapes
<1>5. Honest'
  BY <1>1, <1>2 DEF IInv, Honest, Resting
<1>6. Found'
  BY <1>1, <1>2 DEF IInv, Found, Shapes
<1>7. Identifying'
  BY <1>1, <1>2, <1>3 DEF IInv, Identifying, Resting
<1>8. Reading'
  BY <1>1, <1>2, <1>3 DEF IInv, Reading
<1>9. Answers'
  BY <1>1, <1>2 DEF IInv, Answers, RetShape, Faithful, Whole, Exact
<1> QED BY <1>4, <1>5, <1>6, <1>7, <1>8, <1>9 DEF IInv

(* The steps of the driver, each under the hypotheses its place in the call *)
(* gives.  Without Late a wait is given up only for a drive that hangs.     *)
LEMMA Patience == ~Late => (GivesUp <=> drive.state = "hung")
BY DEF GivesUp

(* An answer of FALSE keeps the invariant when it is deserved.              *)
LEMMA ReturnInv ==
    ASSUME IInv, NEW ok \in BOOLEAN, Return(ok), op.pc \in InitSteps \cup ReadSteps,
           drive.state \in {"absent", "idle", "hung", "error"},
           UNCHANGED <<kind, faults, drive>>, regs' \in Registers, present' \in BOOLEAN,
           present' => kind = "ata", faults = Faults /\ kind = "ata" => present',
           op.op = "init" /\ faults = Faults => (ok <=> kind = "ata"),
           op.op = "read" => ~ok /\ faults # Faults
    PROVE  IInv'
<1> USE DEF NoOp, NoRet, InitSteps, ReadSteps, Registers
<1>1. op' = NoOp /\ ret' = [op |-> op.op, ok |-> ok, lba |-> op.lba, count |-> op.count, dst |-> op.dst]
  BY DEF Return
<1>2. op.op \in {"init", "read"} /\ op.lba \in Nat /\ op.count \in Nat /\ op.dst \in Seq(Nat)
  <2>1. CASE op \in [pc : InitSteps, op : {"init"}, lba : {0}, count : {0}, dst : {<<>>}]
    <3>1. op.op = "init" /\ op.lba = 0 /\ op.count = 0 /\ op.dst = <<>>
      BY <2>1
    <3>2. <<>> \in Seq(Nat)
      OBVIOUS
    <3> QED BY <3>1, <3>2
  <2>2. CASE op \in [pc : ReadSteps, op : {"read"}, lba : Nat, count : 1 .. COUNTS, dst : Seq(Nat)]
    BY <2>2, BlockAssumption
  <2> QED BY <2>1, <2>2 DEF IInv, Shapes, OpShape
<1>3. Shapes'
  BY <1>1 DEF IInv, Shapes, OpShape
<1>4. Honest' /\ Found' /\ Identifying' /\ Reading'
  BY <1>1 DEF IInv, Honest, Found, Identifying, Reading
<1>5. RetShape'
  BY <1>1, <1>2 DEF RetShape
<1>6. Faithful'
  BY <1>1, <1>2 DEF Faithful, Whole, Exact
<1> QED BY <1>3, <1>4, <1>5, <1>6 DEF IInv, Answers

LEMMA ResetInv == IInv /\ ResetDrive => IInv'
<1> SUFFICES ASSUME IInv, ResetDrive PROVE IInv'
  OBVIOUS
<1> USE DEF ResetDrive, Still, NoOp, NoRet, InitSteps, ReadSteps
<1>1. regs' \in Registers
  BY DEF NoRegs, Registers
<1>2. OpShape'
  BY DEF OpShape
<1>3. Shapes' /\ Honest'
  BY <1>1, <1>2 DEF IInv, Shapes, Honest
<1>4. Found' /\ Identifying' /\ Reading'
  BY DEF IInv, Found, Identifying, Reading
<1>5. Answers'
  BY DEF Answers, RetShape, Faithful, Whole, Exact
<1> QED BY <1>3, <1>4, <1>5 DEF IInv

(* A step to another place of the same call, which changes nothing else.    *)
LEMMA GotoShapes ==
    ASSUME IInv, NEW place, Goto(place), UNCHANGED <<kind, faults, present, regs, drive>>,
           \/ op.pc \in InitSteps /\ place \in InitSteps 
           \/ op.pc \in ReadSteps /\ place \in ReadSteps
    PROVE  /\ Shapes' /\ Honest' /\ Found' /\ Answers'
           /\ op'.pc = place /\ op'.dst = op.dst /\ op'.lba = op.lba /\ op'.count = op.count
<1> USE DEF NoOp, NoRet, InitSteps, ReadSteps
<1>1. op' = [op EXCEPT !.pc = place] /\ ret' = ret
  BY DEF Goto
<1>2. /\ op'.pc = place /\ op'.dst = op.dst /\ op'.lba = op.lba /\ op'.count = op.count
      /\ OpShape'
  BY <1>1 DEF IInv, Shapes, OpShape
<1>3. Shapes'
  BY <1>2 DEF IInv, Shapes
<1>4. Honest' /\ Found'
  BY <1>1, <1>2 DEF IInv, Honest, Found
<1>5. Answers'
  BY <1>1 DEF IInv, Answers, RetShape, Faithful, Whole, Exact
<1> QED BY <1>2, <1>3, <1>4, <1>5

LEMMA InitReadyInv == ~Late /\ IInv /\ InitReady => IInv'
<1> SUFFICES ASSUME ~Late, IInv, InitReady PROVE IInv'
  OBVIOUS
<1> USE DEF InitSteps, ReadSteps
<1>1. op.pc = "init_ready" /\ UNCHANGED <<kind, faults, present, regs, drive>>
  BY DEF InitReady, Still
<1>2. CASE ~Busy /\ Goto("identify")
  <2>1. Shapes' /\ Honest' /\ Found' /\ Answers' /\ op'.pc = "identify"
    <3>1. op.pc \in InitSteps /\ "identify" \in InitSteps
      BY <1>1
    <3> QED BY <1>1, <1>2, <3>1, GotoShapes
  <2>2. Identifying' /\ Reading'
    BY <1>1, <1>2, <2>1 DEF IInv, Identifying, Reading, Busy, Shapes
  <2> QED BY <2>1, <2>2 DEF IInv
<1>3. CASE GivesUp /\ Return(FALSE)
  <2>1. drive.state = "hung" /\ faults # Faults
    BY <1>3, Patience DEF IInv, Honest
  <2>2. op.op = "init" /\ ~present
    BY <1>1 DEF IInv, Found, Shapes, OpShape, NoOp
  <2> QED BY <1>1, <1>3, <2>1, <2>2, ReturnInv DEF IInv, Shapes
<1> QED BY <1>2, <1>3 DEF InitReady, ata_wait_ready

LEMMA IdentifyInv == IInv /\ Identify => IInv'
<1> SUFFICES ASSUME IInv, Identify PROVE IInv'
  OBVIOUS
<1> USE DEF InitSteps, ReadSteps
<1>1. op.pc = "identify" /\ UNCHANGED <<kind, faults, present>> /\ ~present /\ drive.state \in {"absent", "idle", "error"}
  BY DEF Identify, Still, IInv, Identifying, Found
<1>2. /\ regs' \in Registers 
      /\ kind = "atapi" => regs'.mid # 0 
      /\ kind # "atapi" => regs'.mid = 0 /\ regs'.hi = 0
  <2> DEFINE r == [regs EXCEPT !.count = 0, !.lo = 0, !.mid = 0, !.hi = 0]
  <2>1. r \in Registers /\ r.mid = 0 /\ r.hi = 0
    BY DEF IInv, Shapes, Registers
  <2>2. regs' = IF kind = "atapi" THEN [r EXCEPT !.mid = 1] ELSE r
    BY DEF Identify
  <2> HIDE DEF r
  <2> QED BY <2>1, <2>2 DEF Registers
<1>3. drive' = Execute(drive, "identify")
  BY DEF Identify
<1>4. CASE drive.state = "absent"
  <2>1. drive' = drive /\ kind = "none"
    BY <1>3, <1>4 DEF Execute, IInv, Honest
  <2>2. Return(FALSE)
    BY <1>4, <2>1 DEF Identify
  <2>3. op.op = "init"
    BY <1>1 DEF IInv, Shapes, OpShape, NoOp
  <2>4. present' = present
    BY <1>1
  <2>5. present' \in BOOLEAN /\ ~present' /\ kind # "ata"
    BY <1>1, <2>1, <2>4 DEF IInv, Shapes
  <2>6. UNCHANGED <<kind, faults, drive>> /\ op.pc \in InitSteps \cup ReadSteps
    BY <1>1, <2>1
  <2> QED BY <1>2, <1>4, <2>2, <2>3, <2>5, <2>6, ReturnInv
<1>5. CASE drive.state # "absent"
  <2>1. /\ kind # "none" 
        /\ drive' = IF kind = "atapi" THEN [state |-> "error", todo |-> <<>>] ELSE [state |-> "busy", todo |-> <<"id">>]
    BY <1>1, <1>3, <1>5 DEF Execute, IInv, Honest
  <2>2. drive'.state \in {"busy", "error"} /\ drive' = [state |-> drive'.state, todo |-> drive'.todo]
        /\ (drive'.state = "busy" => drive'.todo = <<"id">>) /\ (drive'.state = "error" <=> kind = "atapi")
    BY <2>1
  <2>3. Goto("id_ready")
    BY <2>2 DEF Identify
  <2>4. op' = [op EXCEPT !.pc = "id_ready"] /\ ret' = ret
    BY <2>3 DEF Goto
  <2>5. OpShape' /\ op'.pc = "id_ready"
    BY <1>1, <2>4 DEF IInv, Shapes, OpShape, NoOp
  <2>6. Shapes' /\ Honest'
    BY <1>1, <1>2, <2>1, <2>2, <2>5 DEF IInv, Shapes, Honest
  <2>7. Found' /\ Identifying' /\ Reading'
    BY <1>1, <1>2, <2>1, <2>2, <2>4, <2>5 DEF IInv, Found, Identifying, Reading
  <2>8. Answers'
    BY <1>1, <2>4 DEF IInv, Answers, RetShape, Faithful, Whole, Exact
  <2> QED BY <2>6, <2>7, <2>8 DEF IInv
<1> QED BY <1>4, <1>5

LEMMA IdReadyInv == ~Late /\ IInv /\ IdReady => IInv'
<1> SUFFICES ASSUME ~Late, IInv, IdReady PROVE IInv'
  OBVIOUS
<1> USE DEF InitSteps, ReadSteps
<1>1. op.pc = "id_ready" /\ UNCHANGED <<kind, faults, present, regs, drive>>
  BY DEF IdReady, Still
<1>2. CASE ~Busy /\ Goto("id_check")
  <2>1. Shapes' /\ Honest' /\ Found' /\ Answers' /\ op'.pc = "id_check"
    <3>1. op.pc \in InitSteps /\ "id_check" \in InitSteps
      BY <1>1
    <3> QED BY <1>1, <1>2, <3>1, GotoShapes
  <2>2. Identifying' /\ Reading'
    BY <1>1, <1>2, <2>1 DEF IInv, Identifying, Reading, Busy
  <2> QED BY <2>1, <2>2 DEF IInv
<1>3. CASE GivesUp /\ Return(FALSE)
  <2>1. drive.state = "hung" /\ faults # Faults
    BY <1>3, Patience DEF IInv, Honest
  <2>2. op.op = "init" /\ ~present
    BY <1>1 DEF IInv, Found, Shapes, OpShape, NoOp
  <2> QED BY <1>1, <1>3, <2>1, <2>2, ReturnInv DEF IInv, Shapes
<1> QED BY <1>2, <1>3 DEF IdReady, ata_wait_ready

LEMMA IdCheckInv == IInv /\ IdCheck => IInv'
<1> SUFFICES ASSUME IInv, IdCheck PROVE IInv'
  OBVIOUS
<1> USE DEF InitSteps, ReadSteps
<1>1. op.pc = "id_check" /\ UNCHANGED <<kind, faults, present, regs, drive>>
  BY DEF IdCheck, Still
<1>2. CASE kind # "atapi"
  <2>1. Goto("id_drq")
    BY <1>1, <1>2 DEF IdCheck, IInv, Identifying
  <2>2. Shapes' /\ Honest' /\ Found' /\ Answers' /\ op'.pc = "id_drq"
    <3>1. op.pc \in InitSteps /\ "id_drq" \in InitSteps
      BY <1>1
    <3> QED BY <1>1, <2>1, <3>1, GotoShapes
  <2>3. Identifying' /\ Reading'
    BY <1>1, <1>2, <2>2 DEF IInv, Identifying, Reading
  <2> QED BY <2>2, <2>3 DEF IInv
<1>3. CASE kind = "atapi"
  <2>1. Return(FALSE) /\ drive.state = "error"
    BY <1>1, <1>3 DEF IdCheck, IInv, Identifying
  <2>3. op.op = "init" /\ ~present
    BY <1>1 DEF IInv, Found, Shapes, OpShape, NoOp
  <2> QED BY <1>1, <1>3, <2>1, <2>3, ReturnInv DEF IInv, Shapes
<1> QED BY <1>2, <1>3

LEMMA IdDrqInv == ~Late /\ IInv /\ IdDrq => IInv'
<1> SUFFICES ASSUME ~Late, IInv, IdDrq PROVE IInv'
  OBVIOUS
<1> USE DEF InitSteps, ReadSteps
<1>1. op.pc = "id_drq" /\ UNCHANGED <<kind, faults, present, regs, drive>>
  BY DEF IdDrq, Still
<1>2. CASE Drq /\ Goto("id_data")
  <2>1. Shapes' /\ Honest' /\ Found' /\ Answers' /\ op'.pc = "id_data"
    <3>1. op.pc \in InitSteps /\ "id_data" \in InitSteps
      BY <1>1
    <3> QED BY <1>1, <1>2, <3>1, GotoShapes
  <2>2. Identifying' /\ Reading'
    BY <1>1, <1>2, <2>1 DEF IInv, Identifying, Reading, Drq
  <2> QED BY <2>1, <2>2 DEF IInv
<1>3. CASE ~Drq /\ Return(FALSE)
  <2>1. drive.state = "error" /\ faults # Faults
    BY <1>1, <1>3 DEF IInv, Honest, Identifying, Drq
  <2>2. op.op = "init" /\ ~present
    BY <1>1 DEF IInv, Found, Shapes, OpShape, NoOp
  <2> QED BY <1>1, <1>3, <2>1, <2>2, ReturnInv DEF IInv, Shapes
<1> QED BY <1>2, <1>3 DEF IdDrq, ata_wait_drq, Failed, Drq, GivesUp, Busy

LEMMA IdDataInv == IInv /\ IdData => IInv'
<1> SUFFICES ASSUME IInv, IdData PROVE IInv'
  OBVIOUS
<1> USE DEF InitSteps, ReadSteps
<1>1. /\ op.pc = "id_data" /\ UNCHANGED <<kind, faults, regs>> /\ drive' = Taken
      /\ present' = (kind # "nolba") /\ Return(kind # "nolba")
  BY DEF IdData
<1>2. drive.state = "drq" /\ drive.todo = <<"id">> /\ kind \in {"ata", "nolba"} /\ op.op = "init"
  BY <1>1, BlockAssumption DEF IInv, Identifying, Honest, Shapes, OpShape, NoOp
<1>3. drive' = [state |-> "idle", todo |-> Tail(drive.todo)]
  BY <1>1, <1>2 DEF Taken, Resting
<1>4. op' = NoOp /\ ret' = [op |-> op.op, ok |-> (kind # "nolba"), lba |-> op.lba, count |-> op.count, dst |-> op.dst]
  BY <1>1 DEF Return
<1>5. ret' = [op |-> "init", ok |-> (kind = "ata"), lba |-> 0, count |-> 0, dst |-> <<>>]
  BY <1>1, <1>2, <1>4 DEF IInv, Shapes, OpShape, NoOp
<1> USE DEF NoOp
<1>6. Shapes' /\ Honest'
  BY <1>1, <1>2, <1>3, <1>4 DEF IInv, Shapes, OpShape, Honest
<1>7. Found' /\ Identifying' /\ Reading'
  <2>1. op'.pc = "idle" /\ drive'.state = "idle"
    BY <1>3, <1>4
  <2>2. present' <=> kind' = "ata"
    BY <1>1, <1>2
  <2> QED BY <2>1, <2>2 DEF Found, Identifying, Reading
<1>8. Answers'
  <2>1. <<>> \in Seq(Nat) /\ ret'.op = "init" /\ ret'.ok = (kind = "ata")
    BY <1>5
  <2>2. RetShape'
    BY <1>5, <2>1 DEF RetShape
  <2> QED BY <1>1, <2>1, <2>2 DEF Answers, Faithful, Whole, Exact
<1> QED BY <1>6, <1>7, <1>8 DEF IInv

(* block_read refuses what is out of range; without a fault nothing else.   *)
LEMMA ReadInv == ASSUME NEW lba \in Nat, NEW count \in Nat, IInv, Read(lba, count) PROVE IInv'
<1> USE DEF InitSteps, ReadSteps, NoOp, NoRet
<1>1. op.pc = "idle" /\ UNCHANGED <<kind, faults, present, regs, drive>>
  BY DEF Read, Still
<1>2. CASE Refused(lba, count)
  <2>1. op' = op /\ ret' = [op |-> "read", ok |-> FALSE, lba |-> lba, count |-> count, dst |-> <<>>]
    BY <1>2 DEF Read
  <2>2. Shapes' /\ Honest' /\ Found' /\ Identifying' /\ Reading'
    BY <1>1, <2>1 DEF IInv, Shapes, OpShape, Honest, Found, Identifying, Reading, Read
  <2>3. <<>> \in Seq(Nat)
    OBVIOUS
  <2>4. RetShape'
    BY <2>1, <2>3 DEF RetShape
  <2>5. faults = Faults => ~(kind = "ata" /\ lba < Space /\ count \in 1 .. COUNTS)
    BY <1>1, <1>2, BlockAssumption DEF IInv, Found, Refused, Space
  <2>6. Faithful'
    BY <1>1, <2>1, <2>5 DEF Faithful, Whole, Exact
  <2> QED BY <2>2, <2>4, <2>6 DEF IInv, Answers
<1>3. CASE ~Refused(lba, count)
  <2>1. op' = [pc |-> "ready", op |-> "read", lba |-> lba, count |-> count, dst |-> <<>>] /\ ret' = NoRet
    BY <1>3 DEF Read
  <2>2. present /\ lba < Space /\ count \in 1 .. COUNTS
    BY <1>3, BlockAssumption DEF Refused, Space
  <2>3. OpShape'
    BY <2>1, <2>2 DEF OpShape
  <2>4. Shapes' /\ Honest' /\ Found'
    BY <1>1, <2>1, <2>3 DEF IInv, Shapes, Honest, Found
  <2>5. Identifying' /\ Reading'
    BY <1>1, <2>1, <2>2 DEF IInv, Identifying, Reading, Found, Honest
  <2>6. Answers'
    BY <2>1 DEF Answers, RetShape, Faithful, Whole, Exact
  <2> QED BY <2>4, <2>5, <2>6 DEF IInv
<1> QED BY <1>2, <1>3

LEMMA ReadyInv == ~Late /\ IInv /\ Ready => IInv'
<1> SUFFICES ASSUME ~Late, IInv, Ready PROVE IInv'
  OBVIOUS
<1> USE DEF InitSteps, ReadSteps
<1>1. op.pc = "ready" /\ UNCHANGED <<kind, faults, present, regs, drive>>
  BY DEF Ready, Still
<1>2. CASE ~Busy /\ Goto("command")
  <2>1. Shapes' /\ Honest' /\ Found' /\ Answers' /\ op'.pc = "command" /\ op'.dst = op.dst /\ op'.lba = op.lba
    <3>1. op.pc \in ReadSteps /\ "command" \in ReadSteps
      BY <1>1
    <3> QED BY <1>1, <1>2, <3>1, GotoShapes
  <2>2. Identifying' /\ Reading'
    BY <1>1, <1>2, <2>1 DEF IInv, Identifying, Reading, Busy
  <2> QED BY <2>1, <2>2 DEF IInv
<1>3. CASE GivesUp /\ Return(FALSE)
  <2>1. drive.state = "hung" /\ faults # Faults
    BY <1>3, Patience DEF IInv, Honest
  <2>2. op.op = "read" /\ present /\ (present => kind = "ata")
    BY <1>1 DEF IInv, Found, Reading, Shapes, OpShape, NoOp
  <2> QED BY <1>1, <1>3, <2>1, <2>2, ReturnInv DEF IInv, Shapes
<1> QED BY <1>2, <1>3 DEF Ready, ata_wait_ready

LEMMA CommandInv == IInv /\ Command => IInv'
<1> SUFFICES ASSUME IInv, Command PROVE IInv'
  OBVIOUS
<1> USE DEF InitSteps, ReadSteps
<1>1. /\ op.pc = "command" /\ UNCHANGED <<kind, faults, present, drive, ret>> 
      /\ regs' = Addressed(op.lba, op.count) /\ op' = [op EXCEPT !.pc = "issue"]
  BY DEF Command, Still
<1>2. op \in [pc : ReadSteps, op : {"read"}, lba : Nat, count : 1 .. COUNTS, dst : Seq(Nat)]
  BY <1>1 DEF IInv, Shapes, OpShape, NoOp
<1>3. OpShape' /\ op'.pc = "issue" /\ op'.lba = op.lba /\ op'.count = op.count /\ op'.dst = op.dst
  BY <1>1, <1>2 DEF OpShape
<1>4. regs' \in Registers
  <2>1. BYTE \in Nat \ {0} /\ NIBBLE \in Nat \ {0} /\ COUNTS \in Nat /\ op.lba \in Nat
        /\ BYTE * BYTE \in Nat \ {0} /\ BYTE * BYTE * BYTE \in Nat \ {0} /\ op.count \in Nat
    BY <1>2, BlockAssumption
  <2>2. \A d \in Nat \ {0}, a \in Nat : a \div d \in Nat /\ a % d \in 0 .. d - 1
    BY Digit, Zenon
  <2>3. \A d \in Nat \ {0}, a \in Nat : a % d \in Nat
    BY <2>2
  <2> QED BY <1>1, <2>1, <2>2, <2>3 DEF Addressed, Registers
<1>5. Shapes' /\ Honest' /\ Found'
  BY <1>1, <1>3, <1>4 DEF IInv, Shapes, Honest, Found
<1>6. Identifying' /\ Reading'
  BY <1>1, <1>3 DEF IInv, Identifying, Reading
<1>7. Answers'
  BY <1>1 DEF IInv, Answers, RetShape, Faithful, Whole, Exact
<1> QED BY <1>5, <1>6, <1>7 DEF IInv

(* The drive takes the command and decodes what the driver wrote.           *)
LEMMA SectorsAsked ==
    ASSUME NEW lba \in Nat, lba < Space, NEW count \in 1 .. COUNTS, regs = Addressed(lba, count)
    PROVE  Sectors = [i \in 1 .. count |-> lba + i - 1]
<1>1. Address = lba
  BY AddressRead DEF Address, Addressed
<1>2. (IF regs.count = 0 THEN COUNTS ELSE regs.count) = count
  BY BlockAssumption DEF Addressed
<1> QED BY <1>1, <1>2 DEF Sectors

LEMMA IssueInv == IInv /\ Issue => IInv'
<1> SUFFICES ASSUME IInv, Issue PROVE IInv'
  OBVIOUS
<1> USE DEF InitSteps, ReadSteps
<1>1. /\ op.pc = "issue" /\ UNCHANGED <<kind, faults, present, regs, ret>> 
      /\ drive' = Execute(drive, "read") /\ op' = [op EXCEPT !.pc = "drq"]
  BY DEF Issue, Still, Goto
<1>2. op \in [pc : ReadSteps, op : {"read"}, lba : Nat, count : 1 .. COUNTS, dst : Seq(Nat)]
  BY <1>1 DEF IInv, Shapes, OpShape, NoOp
<1>3. OpShape' /\ op'.pc = "drq" /\ op'.lba = op.lba /\ op'.count = op.count /\ op'.dst = <<>>
  BY <1>1, <1>2 DEF OpShape, IInv, Reading
<1>4. drive' = [state |-> "busy", todo |-> Sectors]
  BY <1>1 DEF IInv, Reading, Execute
<1>5. Sectors = [i \in 1 .. op.count |-> op.lba + i - 1]
  BY <1>1, <1>2, SectorsAsked DEF IInv, Reading
<1>6. /\ Sectors \in Seq(Nat) /\ Len(Sectors) = op.count 
      /\ \A i \in 1 .. op.count : Sectors[i] = op.lba + i - 1
  <2>1. op.count \in Nat /\ op.lba \in Nat
    BY <1>2, BlockAssumption
  <2>2. \A i \in 1 .. op.count : op.lba + i - 1 \in Nat
    BY <2>1
  <2>3. Sectors \in [1 .. op.count -> Nat] /\ \A i \in 1 .. op.count : Sectors[i] = op.lba + i - 1
    BY <1>5, <2>2, Zenon
  <2> HIDE DEF Sectors
  <2> QED BY <2>1, <2>3
<1>7. Shapes' /\ Honest' /\ Found'
  BY <1>1, <1>3, <1>4 DEF IInv, Shapes, Honest, Found, Reading
<1>8. Identifying' /\ Reading'
  <2>1. Len(op'.dst) = 0 /\ op.count > 0
    BY <1>2, <1>3, BlockAssumption
  <2>2. Reading'
    BY <1>1, <1>2, <1>3, <1>4, <1>6, <2>1 DEF IInv, Reading
  <2> QED BY <1>1, <1>3, <2>2 DEF Identifying
<1>9. Answers'
  BY <1>1 DEF IInv, Answers, RetShape, Faithful, Whole, Exact
<1> QED BY <1>7, <1>8, <1>9 DEF IInv

LEMMA WaitDataInv == ~Late /\ IInv /\ WaitData => IInv'
<1> SUFFICES ASSUME ~Late, IInv, WaitData PROVE IInv'
  OBVIOUS
<1> USE DEF InitSteps, ReadSteps
<1>1. op.pc = "drq" /\ UNCHANGED <<kind, faults, present, regs, drive>>
  BY DEF WaitData, Still
<1>2. op.op = "read" /\ present /\ kind = "ata"
  BY <1>1 DEF IInv, Found, Reading, Shapes, OpShape, NoOp
<1>3. CASE Drq /\ Goto("data")
  <2>1. /\ Shapes' /\ Honest' /\ Found' /\ Answers' /\ op'.pc = "data"
        /\ op'.dst = op.dst /\ op'.lba = op.lba /\ op'.count = op.count
    <3>1. op.pc \in ReadSteps /\ "data" \in ReadSteps
      BY <1>1
    <3> QED BY <1>1, <1>3, <3>1, GotoShapes
  <2>2. Identifying' /\ Reading'
    BY <1>1, <1>3, <2>1 DEF IInv, Identifying, Reading, Drq
  <2> QED BY <2>1, <2>2 DEF IInv
<1>4. CASE ~Drq /\ Return(FALSE)
  <2>1. drive.state \in {"hung", "error"}
    BY <1>1, <1>4, Patience DEF WaitData, ata_wait_drq, IInv, Reading, Drq, Busy, Failed, Goto, Return
  <2>2. faults # Faults
    BY <1>2, <2>1 DEF IInv, Honest
  <2> QED BY <1>1, <1>2, <1>4, <2>1, <2>2, ReturnInv DEF IInv, Shapes
<1> QED BY <1>3, <1>4 DEF WaitData, ata_wait_drq, Failed, Drq, GivesUp, Busy

(* The sector that is taken continues dst, and the drive goes on to the next. *)
LEMMA TransferInv == IInv /\ Transfer => IInv'
<1> SUFFICES ASSUME IInv, Transfer PROVE IInv'
  OBVIOUS
<1> USE DEF InitSteps, ReadSteps
<1> DEFINE num == Len(op.dst)
           x == Head(drive.todo)
           d == Append(op.dst, x)
<1>1. op.pc = "data" /\ UNCHANGED <<kind, faults, present, regs>> /\ drive' = Taken
  BY DEF Transfer, Still
<1>2. /\ op \in [pc : ReadSteps, op : {"read"}, lba : Nat, count : 1 .. COUNTS, dst : Seq(Nat)]
      /\ op.lba \in Nat /\ op.count \in Nat /\ op.dst \in Seq(Nat) /\ op.lba < Space
      /\ op.count \in 1 .. COUNTS /\ present /\ kind = "ata"
  BY <1>1, BlockAssumption DEF IInv, Found, Reading, Shapes, OpShape, NoOp
<1>3. /\ drive.state = "drq" /\ drive.todo \in Seq(Nat) /\ num < op.count /\ Len(drive.todo) = op.count - num
      /\ \A i \in 1 .. num : op.dst[i] = op.lba + i - 1
      /\ \A i \in 1 .. Len(drive.todo) : drive.todo[i] = op.lba + num + i - 1
  BY <1>1 DEF IInv, Reading
<1>4. num \in Nat /\ x = op.lba + num /\ x \in Nat
  <2>1. num \in Nat /\ Len(drive.todo) \in Nat \ {0}
    BY <1>2, <1>3
  <2>2. x = drive.todo[1] /\ 1 \in 1 .. Len(drive.todo)
    BY <1>3, <2>1
  <2>3. x = op.lba + num + 1 - 1
    BY <1>3, <2>2
  <2> HIDE DEF num, x
  <2> QED BY <1>2, <2>1, <2>3
<1>5. d \in Seq(Nat) /\ Len(d) = num + 1 /\ \A i \in 1 .. num + 1 : d[i] = op.lba + i - 1
  <2> HIDE DEF x
  <2>1. d \in Seq(Nat) /\ Len(d) = num + 1 /\ d[num + 1] = x /\ \A i \in 1 .. num : d[i] = op.dst[i]
    BY <1>2, <1>4, AppendProperties
  <2> HIDE DEF d, num
  <2>2. \A i \in 1 .. num + 1 : i \in 1 .. num \/ i = num + 1
    BY <1>4
  <2>3. op.lba + (num + 1) - 1 = op.lba + num
    BY <1>2, <1>4
  <2> QED BY <1>3, <1>4, <2>1, <2>2, <2>3
<1>6. /\ Tail(drive.todo) \in Seq(Nat) /\ Len(Tail(drive.todo)) = op.count - (num + 1)
      /\ \A i \in 1 .. op.count - (num + 1) : Tail(drive.todo)[i] = op.lba + (num + 1) + i - 1
  <2> DEFINE t == drive.todo
  <2> HIDE DEF t, num
  <2>1. t \in Seq(Nat) /\ Len(t) = op.count - num /\ t # <<>>
    BY <1>2, <1>3, <1>4 DEF t
  <2>2. /\ Tail(t) \in Seq(Nat) /\ Len(Tail(t)) = Len(t) - 1 
        /\ \A i \in 1 .. Len(t) - 1 : Tail(t)[i] = t[i + 1]
    BY <2>1
  <2>3. \A i \in 1 .. Len(t) - 1 : i + 1 \in 1 .. Len(t) /\ t[i + 1] = op.lba + num + (i + 1) - 1
    <3>1. \A i \in 1 .. op.count - num : t[i] = op.lba + num + i - 1
      BY <1>3 DEF t
    <3>2. \A i \in 1 .. Len(t) - 1 : i + 1 \in 1 .. Len(t)
      BY <2>1
    <3> QED BY <2>1, <3>1, <3>2, Zenon
  <2>4. Len(t) - 1 = op.count - (num + 1) /\ \A i \in Nat : op.lba + num + (i + 1) - 1 = op.lba + (num + 1) + i - 1
    BY <1>2, <1>4, <2>1
  <2>5. \A i \in 1 .. Len(t) - 1 : i \in Nat
    BY <2>1
  <2>6. \A i \in 1 .. Len(t) - 1 : Tail(t)[i] = op.lba + (num + 1) + i - 1
    BY <2>2, <2>3, <2>4, <2>5
  <2>7. Tail(t) \in Seq(Nat) /\ Len(Tail(t)) = op.count - (num + 1)
    BY <2>2, <2>4
  <2> QED BY <2>4, <2>6, <2>7 DEF t
<1>7. /\ drive' = [state |-> drive'.state, todo |-> Tail(drive.todo)]
      /\ drive'.state = IF op.count - num > 1 THEN "busy" ELSE "idle"
  BY <1>1, <1>2, <1>3 DEF Taken, Resting
<1>8. CASE num + 1 = op.count
  <2>1. op' = NoOp /\ ret' = [op |-> "read", ok |-> TRUE, lba |-> op.lba, count |-> op.count, dst |-> d]
    BY <1>1, <1>2, <1>5, <1>8 DEF Transfer
  <2>2. d = [i \in 1 .. op.count |-> op.lba + i - 1]
    <3>1. d = [i \in 1 .. Len(d) |-> d[i]]
      BY <1>5
    <3> HIDE DEF d
    <3> QED BY <1>5, <1>8, <3>1
  <2> HIDE DEF d, num, x
  <2>3. drive'.state = "idle"
    BY <1>2, <1>4, <1>7, <1>8
  <2>4. Shapes' /\ Honest' /\ Found'
    BY <1>1, <1>2, <1>7, <2>1, <2>3 DEF IInv, Shapes, OpShape, NoOp, Honest, Found
  <2>5. Identifying' /\ Reading'
    BY <1>1, <2>1, <2>3 DEF NoOp, Identifying, Reading
  <2>6. RetShape'
    BY <1>2, <1>5, <2>1 DEF RetShape
  <2>7. Faithful'
    BY <1>1, <1>2, <2>1, <2>2 DEF Faithful, Whole, Exact
  <2> QED BY <2>4, <2>5, <2>6, <2>7 DEF IInv, Answers
<1>9. CASE num + 1 # op.count
  <2>1. op' = [op EXCEPT !.dst = d, !.pc = "drq"] /\ ret' = ret
    BY <1>1, <1>2, <1>5, <1>9 DEF Transfer
  <2>2. op' = [pc |-> "drq", op |-> "read", lba |-> op.lba, count |-> op.count, dst |-> d]
    BY <1>2, <2>1
  <2>3. drive'.state = "busy"
    BY <1>2, <1>3, <1>4, <1>7, <1>9
  <2> HIDE DEF d, x
  <2>4. OpShape'
    BY <1>2, <1>5, <2>2 DEF OpShape
  <2>5. Shapes' /\ Honest' /\ Found'
    BY <1>1, <1>2, <1>7, <2>1, <2>2, <2>3, <2>4 DEF IInv, Shapes, Honest, Found
  <2>6. Reading'
    <3>1. /\ op'.dst = d /\ op'.lba = op.lba /\ op'.count = op.count /\ op'.pc = "drq"
          /\ drive'.todo = Tail(drive.todo)
      BY <1>7, <2>2
    <3>2. num + 1 < op.count /\ op.count - (num + 1) = op.count - Len(d)
      BY <1>2, <1>3, <1>4, <1>5, <1>9
    <3> HIDE DEF num
    <3> QED BY <1>1, <1>2, <1>5, <1>6, <2>3, <3>1, <3>2 DEF Reading
  <2>7. Identifying'
    BY <2>2, <2>3 DEF Identifying
  <2>8. Answers'
    BY <1>1, <2>1 DEF IInv, Answers, RetShape, Faithful, Whole, Exact
  <2> QED BY <2>5, <2>6, <2>7, <2>8 DEF IInv
<1> QED BY <1>8, <1>9

LEMMA NextInv == ~Late /\ IInv /\ [Next]_vars => IInv'
<1> SUFFICES ASSUME ~Late, IInv, [Next]_vars PROVE IInv'
  OBVIOUS
<1>1. CASE Drive
  BY <1>1, DriveInv
<1>2. CASE Driver
  BY <1>2, ResetInv, InitReadyInv, IdentifyInv, IdReadyInv, IdCheckInv, IdDrqInv, IdDataInv,
     ReadyInv, CommandInv, IssueInv, WaitDataInv, TransferInv DEF Driver
<1>3. ASSUME NEW lba \in Lbas, NEW num \in Counts, Read(lba, num) PROVE IInv'
  BY <1>3, ReadInv, BlockAssumption
<1>4. CASE UNCHANGED vars
  BY <1>4 DEF vars, IInv, Shapes, OpShape, Honest, Found, Identifying, Reading, Answers, RetShape, Faithful, Whole, Exact
<1> QED BY <1>1, <1>2, <1>3, <1>4 DEF Next

LEMMA AlwaysInv == ASSUME ~Late PROVE Spec => []IInv
<1>1. IInv /\ [Next]_vars => IInv'
  BY NextInv
<1> QED BY <1>1, InitInv, PTL DEF Spec

(* A read that succeeds has delivered exactly the sectors that were asked   *)
(* for, in order, whatever other drives and registers there are; and a call *)
(* fails only for a fault or for its arguments.                             *)
THEOREM ReadsAreFaithful == ASSUME ~Late PROVE Spec => []Faithful
<1>1. IInv => Faithful
  BY DEF IInv, Answers
<1> QED BY <1>1, AlwaysInv, PTL

(* No call leaves data behind for the next one to take for its own.         *)
THEOREM NothingLeftBehind == ASSUME ~Late PROVE Spec => []NothingPending
<1>1. IInv => NothingPending
  BY DEF IInv, Reading, NothingPending, NoOp, Drq
<1> QED BY <1>1, AlwaysInv, PTL

-----------------------------------------------------------------------------
(* The console, from addresses over pixels and characters to the page.      *)
(* An address is a row and a column, and each of the two is its own.        *)
LEMMA AddressIs ==
    ASSUME NEW P \in Nat \ {0}, NEW H \in Nat, NEW y \in 0 .. H - 1, NEW x \in 0 .. P - 1
    PROVE  y * P + x \in 0 .. P * H - 1 /\ (y * P + x) \div P = y /\ (y * P + x) % P = x
<1>1. y * P = P * y /\ P * y \in Nat
  BY ProductLaws
<1>2. P * y + P <= P * H
  BY ProductGrows
<1>3. P * H \in Nat
  OBVIOUS
<1> QED BY <1>1, <1>2, <1>3, QuotientUnique

(* An address gives its row and column back.                                *)
LEMMA AddressOf ==
    ASSUME NEW P \in Nat \ {0}, NEW H \in Nat, NEW a \in 0 .. P * H - 1
    PROVE  a \div P \in 0 .. H - 1 /\ a % P \in 0 .. P - 1 /\ a = (a \div P) * P + (a % P)
<1> DEFINE k == a \div P
<1>1. P * H \in Nat
  OBVIOUS
<1>2. a = P * k + (a % P) /\ a % P \in 0 .. P - 1 /\ k \in Nat
  <2>1. a \in Nat
    BY <1>1
  <2> QED BY <2>1, Digit
<1>3. P * k = k * P /\ P * k \in Int
  BY <1>2, ProductLaws
<1> HIDE DEF k
<1>4. H < k + 1 => P * H + P <= P * k + P
  <2>1. H < k + 1 => P * H + P <= P * (k + 1)
    BY <1>2, ProductGrows
  <2>2. P * (k + 1) = P * k + P * 1 /\ P * 1 = P
    BY <1>2, ProductLaws
  <2> QED BY <2>1, <2>2
<1>5. k < H
  BY <1>1, <1>2, <1>3, <1>4
<1> QED BY <1>2, <1>3, <1>5 DEF k

(* The pixel of a row and a column.                                        *)
Pixel(image, P, y, x) == image[y * P + x]

(* Whether an address lies in some rows and columns, or in the first rows.  *)
Addresses(P, xs, ys) == {y * P + x : x \in xs, y \in ys}

(* Where a box draws, and what.                                             *)
(* The addresses of a box are in the image, and are those of its places.    *)
BoxIn(P, H, xs, ys) ==
    /\ Addresses(P, xs, ys) \subseteq 0 .. P * H - 1
    /\ \A y \in 0 .. H - 1 : \A x \in 0 .. P - 1 : y * P + x \in Addresses(P, xs, ys) <=> x \in xs /\ y \in ys

LEMMA BoxHas ==
    ASSUME NEW P \in Nat \ {0}, NEW H \in Nat, NEW xs \in SUBSET (0 .. P - 1), NEW ys \in SUBSET (0 .. H - 1)
    PROVE  BoxIn(P, H, xs, ys)
<1>1. \A y \in 0 .. H - 1 : \A x \in 0 .. P - 1 :
        y * P + x \in 0 .. P * H - 1 /\ (y * P + x) \div P = y /\ (y * P + x) % P = x
  BY AddressIs
<1>2. \A a : a \in Addresses(P, xs, ys) <=> \E x \in xs : \E y \in ys : a = y * P + x
  BY DEF Addresses
<1>3. Addresses(P, xs, ys) \subseteq 0 .. P * H - 1
  BY <1>1, <1>2
<1>4. ASSUME NEW y \in 0 .. H - 1, NEW x \in 0 .. P - 1
      PROVE  y * P + x \in Addresses(P, xs, ys) <=> x \in xs /\ y \in ys
  <2>1. ASSUME NEW u \in xs, NEW v \in ys, y * P + x = v * P + u PROVE x = u /\ y = v
    <3>1. (y * P + x) \div P = y /\ (y * P + x) % P = x /\ (v * P + u) \div P = v /\ (v * P + u) % P = u
      BY <1>1
    <3> QED BY <2>1, <3>1, Zenon
  <2>2. y * P + x \in Addresses(P, xs, ys) => x \in xs /\ y \in ys
    BY <1>2, <2>1
  <2>3. x \in xs /\ y \in ys => y * P + x \in Addresses(P, xs, ys)
    BY <1>2, Zenon
  <2> QED BY <2>2, <2>3
<1> QED BY <1>3, <1>4 DEF BoxIn

(* The addresses of whole rows.                                             *)
LEMMA StripHas ==
    ASSUME NEW P \in Nat \ {0}, NEW K \in Nat, NEW y \in Nat, NEW x \in 0 .. P - 1
    PROVE  y * P + x \in 0 .. K * P - 1 <=> y < K
<1>1. K * P = P * K /\ y * P = P * y /\ P * K \in Nat /\ P * y \in Nat
  BY ProductLaws
<1>2. y < K => P * y + P <= P * K
  BY ProductGrows
<1>3. K < y => P * K + P <= P * y
  BY ProductGrows
<1>4. K = y => P * K = P * y
  OBVIOUS
<1> QED BY <1>1, <1>2, <1>3, <1>4

(* What every mode has room for.                                            *)
LEMMA ModeIs ==
    ASSUME mode \in Modes
    PROVE  /\ mode.width \in Nat \ {0} /\ mode.height \in Nat \ {0} /\ mode.pitch \in Nat \ {0} /\ mode.width <= mode.pitch
           /\ Pitch \in Nat \ {0} /\ mode.width <= Pitch
           /\ Paired \in Nat /\ Paired <= mode.width
           /\ COLS \in Nat \ {0} /\ COLS * FONT_WIDTH \in Nat /\ COLS * FONT_WIDTH <= Paired
           /\ ROWS \in Nat \ {0} /\ ROWS * FONT_HEIGHT \in Nat /\ ROWS * FONT_HEIGHT <= mode.height
<1> DEFINE w == mode.width
           h == mode.height
           p == mode.pitch
<1>1. w \in Nat \ {0} /\ h \in Nat \ {0} /\ p \in Nat \ {0} /\ w <= p
  <2>1. {w, h} \subseteq Nat \ {0} /\ p \in Nat /\ w <= p
    BY ModesAssumption
  <2> QED BY <2>1
<1>2. FONT_WIDTH \in Nat \ {0} /\ FONT_HEIGHT \in Nat \ {0} /\ FONT_WIDTH <= w /\ FONT_HEIGHT <= h /\ FONT_WIDTH % 2 = 0
  <2>1. {FONT_WIDTH, FONT_HEIGHT} \subseteq Nat \ {0}
    BY ConsoleAssumption
  <2> QED BY <2>1, ConsoleAssumption
<1> HIDE DEF w, h, p
<1>3. ASSUME NEW num \in Nat \ {0}, NEW d \in Nat \ {0}, d <= num
      PROVE  num \div d \in Nat \ {0} /\ (num \div d) * d \in Nat /\ (num \div d) * d <= num
  <2> DEFINE q == num \div d
  <2>1. num = d * q + (num % d) /\ num % d \in 0 .. d - 1 /\ q \in Nat
    BY Digit
  <2> HIDE DEF q
  <2>2. q # 0
    <3>1. q = 0 => d * q = 0
      OBVIOUS
    <3> QED BY <1>3, <2>1, <3>1
  <2>3. q * d = d * q /\ d * q \in Nat
    BY <2>1, ProductLaws
  <2> QED BY <2>1, <2>2, <2>3 DEF q
<1>4. /\ w \div FONT_WIDTH \in Nat \ {0} /\ (w \div FONT_WIDTH) * FONT_WIDTH \in Nat /\ (w \div FONT_WIDTH) * FONT_WIDTH <= w
      /\ h \div FONT_HEIGHT \in Nat \ {0} /\ (h \div FONT_HEIGHT) * FONT_HEIGHT \in Nat /\ (h \div FONT_HEIGHT) * FONT_HEIGHT <= h
  BY <1>1, <1>2, <1>3
<1>5. 2 * (w \div 2) \in Nat /\ 2 * (w \div 2) <= w /\ w <= 2 * (w \div 2) + 1
  BY <1>1
<1>6. (w \div FONT_WIDTH) * FONT_WIDTH <= 2 * (w \div 2)
  <2> DEFINE q == w \div FONT_WIDTH
             k == FONT_WIDTH \div 2
             m == w \div 2
  <2>1. k \in Nat /\ FONT_WIDTH = 2 * k /\ m \in Nat
    BY <1>1, <1>2
  <2> HIDE DEF q, k, m
  <2>2. q \in Nat /\ q * FONT_WIDTH <= w /\ w <= 2 * m + 1
    BY <1>4, <1>5 DEF q, m
  <2>3. q * FONT_WIDTH = 2 * (q * k) /\ q * k \in Int /\ q * FONT_WIDTH \in Int
    <3>1. q * (2 * k) = (q * 2) * k /\ q * 2 = 2 * q /\ 2 * (q * k) = (2 * q) * k /\ q * k \in Int
      BY <2>1, <2>2, ProductLaws
    <3> QED BY <2>1, <3>1
  <2>4. q * FONT_WIDTH <= 2 * m
    <3>1. PICK j \in Int : j = q * k
      BY <2>3
    <3>2. q * FONT_WIDTH = 2 * j
      BY <2>3, <3>1
    <3>3. PICK num \in Int : num = q * FONT_WIDTH
      BY <2>3
    <3>4. num <= w /\ w <= 2 * m + 1 /\ num = 2 * j /\ w \in Nat
      BY <1>1, <2>2, <3>2, <3>3
    <3>5. num <= 2 * m
      BY <2>1, <3>4
    <3> QED BY <3>3, <3>5
  <2> QED BY <2>4 DEF q, m
<1>7. /\ Pitch = IF Double THEN w ELSE p
      /\ Paired = 2 * (w \div 2) /\ COLS = w \div FONT_WIDTH /\ ROWS = h \div FONT_HEIGHT
  BY DEF Pitch, Paired, COLS, ROWS, w, h, p
<1>8. Pitch \in Nat \ {0} /\ w <= Pitch
  BY <1>1, <1>7
<1>9. Paired \in Nat /\ Paired <= w
  BY <1>5, <1>7
<1>10. COLS \in Nat \ {0} /\ COLS * FONT_WIDTH \in Nat /\ COLS * FONT_WIDTH <= Paired
  BY <1>4, <1>6, <1>7
<1>11. ROWS \in Nat \ {0} /\ ROWS * FONT_HEIGHT \in Nat /\ ROWS * FONT_HEIGHT <= h
  BY <1>4, <1>7
<1> QED BY <1>1, <1>8, <1>9, <1>10, <1>11 DEF w, h, p

(* The font.                                                                *)
LEMMA FontIs ==
    /\ FONT_WIDTH \in Nat \ {0} /\ FONT_HEIGHT \in Nat \ {0}
    /\ \A p \in Cell : p[1] \in 0 .. FONT_WIDTH - 1 /\ p[2] \in 0 .. FONT_HEIGHT - 1
    /\ \A i \in 0 .. FONT_WIDTH - 1 : \A j \in 0 .. FONT_HEIGHT - 1 : <<i, j>> \in Cell /\ <<i, j>>[1] = i /\ <<i, j>>[2] = j
    /\ Blank \in DOMAIN Font /\ Font[Blank] = {}
    /\ White \in Colors /\ White # Black
<1>1. {FONT_WIDTH, FONT_HEIGHT} \subseteq Nat \ {0}
  BY ConsoleAssumption
<1>2. White \in Colors /\ White # Black
  BY ConsoleAssumption DEF White
<1>3. Blank \in DOMAIN Font /\ Font[Blank] = {}
  BY ConsoleAssumption
<1> QED BY <1>1, <1>2, <1>3 DEF Cell

(* The pixels of a cell lie in the grid, and every one lies in one cell.    *)
LEMMA CellIs ==
    ASSUME mode \in Modes, NEW x \in 0 .. COLS - 1, NEW y \in 0 .. ROWS - 1, NEW p \in Cell
    PROVE  /\ y * FONT_HEIGHT + p[2] \in 0 .. ROWS * FONT_HEIGHT - 1 /\ (y * FONT_HEIGHT + p[2]) \div FONT_HEIGHT = y
           /\ (y * FONT_HEIGHT + p[2]) % FONT_HEIGHT = p[2]
           /\ x * FONT_WIDTH + p[1] \in 0 .. COLS * FONT_WIDTH - 1 /\ (x * FONT_WIDTH + p[1]) \div FONT_WIDTH = x
           /\ (x * FONT_WIDTH + p[1]) % FONT_WIDTH = p[1]
<1>1. COLS \in Nat /\ ROWS \in Nat
  BY ModeIs
<1>2. p[1] \in 0 .. FONT_WIDTH - 1 /\ p[2] \in 0 .. FONT_HEIGHT - 1
  BY FontIs
<1>3. FONT_HEIGHT * ROWS = ROWS * FONT_HEIGHT /\ FONT_WIDTH * COLS = COLS * FONT_WIDTH
  BY <1>1, FontIs, ProductLaws
<1>4. /\ y * FONT_HEIGHT + p[2] \in 0 .. FONT_HEIGHT * ROWS - 1 /\ (y * FONT_HEIGHT + p[2]) \div FONT_HEIGHT = y
      /\ (y * FONT_HEIGHT + p[2]) % FONT_HEIGHT = p[2]
  <2>1. PICK r : r = p[2]
    OBVIOUS
  <2>2. FONT_HEIGHT \in Nat \ {0} /\ ROWS \in Nat /\ y \in 0 .. ROWS - 1 /\ r \in 0 .. FONT_HEIGHT - 1
    BY <1>1, <1>2, <2>1, FontIs
  <2> QED BY <2>1, <2>2, AddressIs, Zenon
<1>5. /\ x * FONT_WIDTH + p[1] \in 0 .. FONT_WIDTH * COLS - 1 /\ (x * FONT_WIDTH + p[1]) \div FONT_WIDTH = x
      /\ (x * FONT_WIDTH + p[1]) % FONT_WIDTH = p[1]
  <2>1. PICK r : r = p[1]
    OBVIOUS
  <2>2. FONT_WIDTH \in Nat \ {0} /\ COLS \in Nat /\ x \in 0 .. COLS - 1 /\ r \in 0 .. FONT_WIDTH - 1
    BY <1>1, <1>2, <2>1, FontIs
  <2> QED BY <2>1, <2>2, AddressIs, Zenon
<1> QED BY <1>3, <1>4, <1>5

(* What a cell shows depends on which of its pixels are lit.               *)
Lit(image, P, x, y, p) == Pixel(image, P, y * FONT_HEIGHT + p[2], x * FONT_WIDTH + p[1]) # Black

(* The lit positions of a cell.                                             *)
LEMMA LitIs ==
    ASSUME NEW image, NEW P \in Nat, NEW x \in Nat, NEW y \in Nat, NEW p \in Cell
    PROVE  Lit(image, P, x, y, p) <=> image[(y * FONT_HEIGHT + p[2]) * P + x * FONT_WIDTH + p[1]] # Black
<1> DEFINE a == (y * FONT_HEIGHT + p[2]) * P
           b == x * FONT_WIDTH
<1>1. a \in Int /\ b \in Int /\ p[1] \in Int
  <2>1. y * FONT_HEIGHT + p[2] \in Int
    BY FontIs
  <2> QED BY <2>1, FontIs
<1> HIDE DEF a, b
<1>2. a + b + p[1] = a + (b + p[1])
  BY <1>1
<1> QED BY <1>2 DEF a, b, Lit, Pixel

(* Two buffers that are lit alike show the same character.                  *)
LEMMA CharSame ==
    ASSUME NEW b, NEW P \in Nat, NEW x \in Nat, NEW y \in Nat,
           NEW c, NEW Q \in Nat, NEW u \in Nat, NEW v \in Nat,
           \A p \in Cell : Lit(b, P, x, y, p) <=> Lit(c, Q, u, v, p)
    PROVE  Char(b, P, x, y) = Char(c, Q, u, v)
<1>1. \A p \in Cell : Lit(b, P, x, y, p) <=> b[(y * FONT_HEIGHT + p[2]) * P + x * FONT_WIDTH + p[1]] # Black
  BY LitIs
<1>2. \A p \in Cell : Lit(c, Q, u, v, p) <=> c[(v * FONT_HEIGHT + p[2]) * Q + u * FONT_WIDTH + p[1]] # Black
  BY LitIs
<1>3. {p \in Cell : b[(y * FONT_HEIGHT + p[2]) * P + x * FONT_WIDTH + p[1]] # Black}
        = {p \in Cell : c[(v * FONT_HEIGHT + p[2]) * Q + u * FONT_WIDTH + p[1]] # Black}
  BY <1>1, <1>2, Zenon
<1> QED BY <1>3, Zenon DEF Char

(* A cell with the picture of a character shows that character.             *)
LEMMA CharIs ==
    ASSUME NEW b, NEW P \in Nat, NEW x \in Nat, NEW y \in Nat, NEW c \in DOMAIN Font,
           \A p \in Cell : Lit(b, P, x, y, p) <=> p \in Font[c]
    PROVE  Char(b, P, x, y) = c
<1>1. \A p \in Cell : Lit(b, P, x, y, p) <=> b[(y * FONT_HEIGHT + p[2]) * P + x * FONT_WIDTH + p[1]] # Black
  BY LitIs
<1> DEFINE lit == {p \in Cell : b[(y * FONT_HEIGHT + p[2]) * P + x * FONT_WIDTH + p[1]] # Black}
<1>2. Font[c] \subseteq Cell /\ \A d \in DOMAIN Font : Font[d] = Font[c] => d = c
  BY ConsoleAssumption
<1>3. lit = Font[c]
  BY <1>1, <1>2, Zenon
<1>4. Char(b, P, x, y) = IF \E d \in DOMAIN Font : Font[d] = lit THEN CHOOSE d \in DOMAIN Font : Font[d] = lit ELSE "?"
  BY Zenon DEF Char
<1> HIDE DEF lit
<1>5. (CHOOSE d \in DOMAIN Font : Font[d] = lit) = c
  BY <1>2, <1>3
<1> QED BY <1>3, <1>4, <1>5

(* The buffer that is drawn on has its addresses, and nothing in the padding *)
(* of the hardware's rows.                                                  *)
Fits(image) ==
    /\ DOMAIN image = 0 .. Pitch * mode.height - 1
    /\ ~ Double => \A y \in 0 .. mode.height - 1 : \A x \in mode.width .. Pitch - 1 : Pixel(image, Pitch, y, x) = Black

(* A drawing inside the buffer leaves a buffer that fits.                   *)
LEMMA OverFits ==
    ASSUME mode \in Modes, NEW d, NEW image, DOMAIN d \subseteq 0 .. Pitch * mode.height - 1, Fits(image),
           ~ Double => \A y \in 0 .. mode.height - 1 : \A x \in mode.width .. Pitch - 1 :
                         y * Pitch + x \in DOMAIN d => Pixel(d, Pitch, y, x) = Black
    PROVE  /\ Fits(Over(d, image))
           /\ \A y \in 0 .. mode.height - 1 : \A x \in 0 .. Pitch - 1 :
                Pixel(Over(d, image), Pitch, y, x) =
                    IF y * Pitch + x \in DOMAIN d THEN Pixel(d, Pitch, y, x) ELSE Pixel(image, Pitch, y, x)
<1>1. Pitch \in Nat \ {0} /\ mode.height \in Nat /\ mode.width \in Nat
  BY ModeIs
<1>2. DOMAIN image = 0 .. Pitch * mode.height - 1
  BY DEF Fits
<1>3. DOMAIN Over(d, image) = 0 .. Pitch * mode.height - 1
  BY <1>2 DEF Over
<1>4. ASSUME NEW y \in 0 .. mode.height - 1, NEW x \in 0 .. Pitch - 1
      PROVE  Pixel(Over(d, image), Pitch, y, x) =
                IF y * Pitch + x \in DOMAIN d THEN Pixel(d, Pitch, y, x) ELSE Pixel(image, Pitch, y, x)
  <2>1. y * Pitch + x \in 0 .. Pitch * mode.height - 1
    BY <1>1, AddressIs
  <2> DEFINE a == y * Pitch + x
  <2>2. a \in DOMAIN image
    BY <1>2, <2>1
  <2> HIDE DEF a
  <2>3. a \in DOMAIN d \cup DOMAIN image
    BY <2>2
  <2>4. Over(d, image)[a] = IF a \in DOMAIN d THEN d[a] ELSE image[a]
    BY <2>3 DEF Over
  <2> QED BY <2>4 DEF a, Pixel
<1>5. ASSUME ~ Double, NEW y \in 0 .. mode.height - 1, NEW x \in mode.width .. Pitch - 1
      PROVE  Pixel(Over(d, image), Pitch, y, x) = Black
  <2>1. x \in 0 .. Pitch - 1
    BY <1>1
  <2>2. Pixel(image, Pitch, y, x) = Black
    BY <1>5 DEF Fits
  <2>3. y * Pitch + x \in DOMAIN d => Pixel(d, Pitch, y, x) = Black
    BY <1>5
  <2> QED BY <1>4, <2>1, <2>2, <2>3
<1> QED BY <1>3, <1>4, <1>5 DEF Fits

(* What Box draws within the visible part fits.                             *)
LEMMA BoxFits ==
    ASSUME mode \in Modes, NEW xs \in SUBSET (0 .. mode.width - 1), NEW ys \in SUBSET (0 .. mode.height - 1),
           NEW c, NEW image, Fits(image)
    PROVE  /\ Fits(Over(Box(xs, ys, c), image))
           /\ \A y \in 0 .. mode.height - 1 : \A x \in 0 .. Pitch - 1 :
                Pixel(Over(Box(xs, ys, c), image), Pitch, y, x) = IF x \in xs /\ y \in ys THEN c ELSE Pixel(image, Pitch, y, x)
<1> DEFINE d == Box(xs, ys, c)
<1>1. Pitch \in Nat \ {0} /\ mode.width \in Nat /\ mode.width <= Pitch /\ mode.height \in Nat
  BY ModeIs
<1>2. xs \in SUBSET (0 .. Pitch - 1)
  BY <1>1
<1>3. DOMAIN d = Addresses(Pitch, xs, ys)
  BY DEF Box, Addresses
<1>4. /\ Addresses(Pitch, xs, ys) \subseteq 0 .. Pitch * mode.height - 1
      /\ \A y \in 0 .. mode.height - 1 : \A x \in 0 .. Pitch - 1 :
            y * Pitch + x \in Addresses(Pitch, xs, ys) <=> x \in xs /\ y \in ys
  <2>1. Pitch \in Nat \ {0} /\ mode.height \in Nat /\ xs \in SUBSET (0 .. Pitch - 1) /\ ys \in SUBSET (0 .. mode.height - 1)
    BY <1>1, <1>2
  <2>2. BoxIn(Pitch, mode.height, xs, ys)
    BY <2>1, BoxHas
  <2> QED BY <2>2 DEF BoxIn
<1>5. DOMAIN d \subseteq 0 .. Pitch * mode.height - 1
  BY <1>3, <1>4
<1>6. \A y \in 0 .. mode.height - 1 : \A x \in 0 .. Pitch - 1 : y * Pitch + x \in DOMAIN d <=> x \in xs /\ y \in ys
  BY <1>3, <1>4
<1>7. ASSUME NEW a \in DOMAIN d PROVE d[a] = c
  BY DEF Box
<1> HIDE DEF d
<1>8. ASSUME NEW y \in 0 .. mode.height - 1, NEW x \in mode.width .. Pitch - 1
      PROVE  ~ (y * Pitch + x \in DOMAIN d)
  <2>1. x \in 0 .. Pitch - 1 /\ x \notin xs
    BY <1>1
  <2> QED BY <1>6, <2>1
<1>9. /\ Fits(Over(d, image))
      /\ \A y \in 0 .. mode.height - 1 : \A x \in 0 .. Pitch - 1 :
            Pixel(Over(d, image), Pitch, y, x) =
                IF y * Pitch + x \in DOMAIN d THEN Pixel(d, Pitch, y, x) ELSE Pixel(image, Pitch, y, x)
  BY <1>5, <1>8, OverFits
<1>10. ASSUME NEW y \in 0 .. mode.height - 1, NEW x \in 0 .. Pitch - 1
       PROVE  Pixel(Over(d, image), Pitch, y, x) = IF x \in xs /\ y \in ys THEN c ELSE Pixel(image, Pitch, y, x)
  <2>1. y * Pitch + x \in DOMAIN d => Pixel(d, Pitch, y, x) = c
    BY <1>7 DEF Pixel
  <2> QED BY <1>6, <1>9, <2>1
<1> QED BY <1>9, <1>10 DEF d

(* The columns, or the rows, of a cell.                                     *)
Side(d, i) == i * d .. i * d + d - 1

LEMMA SideIs ==
    ASSUME NEW d \in Nat \ {0}, NEW num \in Nat, NEW i \in 0 .. num - 1
    PROVE  /\ Side(d, i) \subseteq 0 .. num * d - 1
           /\ \A j \in 0 .. num - 1 : \A r \in 0 .. d - 1 : j * d + r \in Side(d, i) <=> j = i
           /\ \A r \in 0 .. d - 1 : (i * d + r) - i * d = r
           /\ \A a \in Side(d, i) : a - i * d \in 0 .. d - 1 /\ a = i * d + (a - i * d)
<1>1. \A j \in 0 .. num - 1 : \A r \in 0 .. d - 1 : j * d + r \in 0 .. d * num - 1 /\ (j * d + r) \div d = j
  BY AddressIs
<1>2. d * num = num * d
  BY ProductLaws
<1>3. PICK m \in Nat : m = i * d
  OBVIOUS
<1>4. Side(d, i) = m .. m + d - 1
  BY <1>3 DEF Side
<1>5. \A a \in Side(d, i) : a - i * d \in 0 .. d - 1 /\ a = i * d + (a - i * d)
  BY <1>3, <1>4
<1>6. \A r \in 0 .. d - 1 : (i * d + r) - i * d = r /\ i * d + r \in Side(d, i)
  BY <1>3, <1>4
<1>7. ASSUME NEW j \in 0 .. num - 1, NEW r \in 0 .. d - 1, j * d + r \in Side(d, i) PROVE j = i
  <2>1. PICK q \in 0 .. d - 1 : j * d + r = i * d + q
    BY <1>5, <1>7
  <2>2. (j * d + r) \div d = j /\ (i * d + q) \div d = i
    BY <1>1
  <2> QED BY <2>1, <2>2
<1>8. Side(d, i) \subseteq 0 .. num * d - 1
  <2> SUFFICES ASSUME NEW a \in Side(d, i) PROVE a \in 0 .. num * d - 1
    OBVIOUS
  <2>1. PICK q \in 0 .. d - 1 : a = i * d + q
    BY <1>5
  <2>2. i * d + q \in 0 .. d * num - 1
    BY <1>1
  <2> QED BY <1>2, <2>1, <2>2
<1>9. \A j \in 0 .. num - 1 : \A r \in 0 .. d - 1 : j * d + r \in Side(d, i) <=> j = i
  BY <1>6, <1>7
<1> QED BY <1>5, <1>6, <1>8, <1>9

(* The picture of a character lies in its cell, and shows it.               *)
LEMMA PictureIs ==
    ASSUME mode \in Modes, NEW x \in 0 .. COLS - 1, NEW y \in 0 .. ROWS - 1, NEW ch \in DOMAIN Font
    PROVE  /\ DOMAIN Picture(x, y, ch) = Addresses(Pitch, Side(FONT_WIDTH, x), Side(FONT_HEIGHT, y))
           /\ \A p \in Cell : Lit(Picture(x, y, ch), Pitch, x, y, p) <=> p \in Font[ch]
<1> DEFINE A == {(y * FONT_HEIGHT + p[2]) * Pitch + x * FONT_WIDTH + p[1] : p \in Cell}
           B == Addresses(Pitch, Side(FONT_WIDTH, x), Side(FONT_HEIGHT, y))
<1>1. /\ FONT_WIDTH \in Nat \ {0} /\ FONT_HEIGHT \in Nat \ {0} /\ Pitch \in Nat \ {0} /\ mode.height \in Nat
      /\ COLS \in Nat /\ ROWS \in Nat
  BY FontIs, ModeIs
<1>2. x \in Nat /\ y \in Nat /\ x * FONT_WIDTH \in Nat /\ y * FONT_HEIGHT \in Nat
  BY <1>1
<1>3. \A p \in Cell : p[1] \in 0 .. FONT_WIDTH - 1 /\ p[2] \in 0 .. FONT_HEIGHT - 1
  BY FontIs
<1>10. /\ \A r \in 0 .. FONT_WIDTH - 1 : x * FONT_WIDTH + r \in Side(FONT_WIDTH, x) /\ (x * FONT_WIDTH + r) - x * FONT_WIDTH = r
       /\ \A a \in Side(FONT_WIDTH, x) : a - x * FONT_WIDTH \in 0 .. FONT_WIDTH - 1 /\ a = x * FONT_WIDTH + (a - x * FONT_WIDTH)
  <2>1. PICK m \in Nat : m = x * FONT_WIDTH
    BY <1>2
  <2> QED BY <1>1, <2>1 DEF Side
<1>11. /\ \A r \in 0 .. FONT_HEIGHT - 1 : y * FONT_HEIGHT + r \in Side(FONT_HEIGHT, y) /\ (y * FONT_HEIGHT + r) - y * FONT_HEIGHT = r
       /\ \A a \in Side(FONT_HEIGHT, y) : a - y * FONT_HEIGHT \in 0 .. FONT_HEIGHT - 1 /\ a = y * FONT_HEIGHT + (a - y * FONT_HEIGHT)
  <2>1. PICK m \in Nat : m = y * FONT_HEIGHT
    BY <1>2
  <2> QED BY <1>1, <2>1 DEF Side
<1>4. ASSUME NEW p \in Cell
      PROVE  /\ (y * FONT_HEIGHT + p[2]) * Pitch + x * FONT_WIDTH + p[1] = (y * FONT_HEIGHT + p[2]) * Pitch + (x * FONT_WIDTH + p[1])
             /\ y * FONT_HEIGHT + p[2] \in Side(FONT_HEIGHT, y) /\ x * FONT_WIDTH + p[1] \in Side(FONT_WIDTH, x)
             /\ y * FONT_HEIGHT + p[2] \in 0 .. mode.height - 1 /\ x * FONT_WIDTH + p[1] \in 0 .. Pitch - 1
  <2>1. /\ y * FONT_HEIGHT + p[2] \in 0 .. ROWS * FONT_HEIGHT - 1
        /\ x * FONT_WIDTH + p[1] \in 0 .. COLS * FONT_WIDTH - 1
    BY CellIs
  <2>2. ROWS * FONT_HEIGHT <= mode.height /\ COLS * FONT_WIDTH <= Pitch
        /\ ROWS * FONT_HEIGHT \in Nat /\ COLS * FONT_WIDTH \in Nat
    <3>1. COLS * FONT_WIDTH <= Paired /\ Paired <= mode.width /\ mode.width <= Pitch /\ Paired \in Nat /\ mode.width \in Nat
          /\ ROWS * FONT_HEIGHT <= mode.height
          /\ ROWS * FONT_HEIGHT \in Nat /\ COLS * FONT_WIDTH \in Nat
      BY ModeIs
    <3> QED BY <1>1, <3>1
  <2>3. y * FONT_HEIGHT + p[2] \in 0 .. mode.height - 1 /\ x * FONT_WIDTH + p[1] \in 0 .. Pitch - 1
    BY <1>1, <2>1, <2>2
  <2>4. y * FONT_HEIGHT + p[2] \in Side(FONT_HEIGHT, y) /\ x * FONT_WIDTH + p[1] \in Side(FONT_WIDTH, x)
    BY <1>3, <1>10, <1>11, Zenon
  <2>5. PICK k \in Int : k = (y * FONT_HEIGHT + p[2]) * Pitch
    BY <1>1, <1>2, <1>3
  <2>6. PICK i \in Nat : i = x * FONT_WIDTH
    BY <1>2
  <2>7. k + i + p[1] = k + (i + p[1])
    BY <1>3
  <2> QED BY <2>3, <2>4, <2>5, <2>6, <2>7
<1>5. A \subseteq B
  <2>1. \A p \in Cell : (y * FONT_HEIGHT + p[2]) * Pitch + x * FONT_WIDTH + p[1] \in B
    BY <1>4 DEF Addresses
  <2> HIDE DEF B
  <2> QED BY <2>1
<1>6. B \subseteq A
  <2>1. ASSUME NEW u \in Side(FONT_WIDTH, x), NEW v \in Side(FONT_HEIGHT, y) PROVE v * Pitch + u \in A
    <3>1. PICK i \in 0 .. FONT_WIDTH - 1 : u = x * FONT_WIDTH + i
      BY <1>10, Zenon
    <3>2. PICK j \in 0 .. FONT_HEIGHT - 1 : v = y * FONT_HEIGHT + j
      BY <1>11, Zenon
    <3>3. <<i, j>> \in Cell /\ <<i, j>>[1] = i /\ <<i, j>>[2] = j
      BY FontIs
    <3>4. PICK p \in Cell : p[1] = i /\ p[2] = j
      BY <3>3, Zenon
    <3>5. v * Pitch + u = (y * FONT_HEIGHT + p[2]) * Pitch + x * FONT_WIDTH + p[1]
      BY <1>4, <3>1, <3>2, <3>4
    <3> QED BY <3>5
  <2> HIDE DEF A
  <2> QED BY <2>1 DEF Addresses
<1>7. DOMAIN Picture(x, y, ch) = A
  BY DEF Picture
<1>8. ASSUME NEW p \in Cell PROVE Lit(Picture(x, y, ch), Pitch, x, y, p) <=> p \in Font[ch]
  <2> DEFINE a == (y * FONT_HEIGHT + p[2]) * Pitch + (x * FONT_WIDTH + p[1])
  <2>1. a \div Pitch = y * FONT_HEIGHT + p[2] /\ a % Pitch = x * FONT_WIDTH + p[1]
    <3>1. y * FONT_HEIGHT + p[2] \in 0 .. mode.height - 1 /\ x * FONT_WIDTH + p[1] \in 0 .. Pitch - 1
      BY <1>4
    <3>2. \A v \in 0 .. mode.height - 1 : \A u \in 0 .. Pitch - 1 : (v * Pitch + u) \div Pitch = v /\ (v * Pitch + u) % Pitch = u
      BY <1>1, AddressIs
    <3> QED BY <3>1, <3>2, Zenon
  <2>2. a \in A
    BY <1>4
  <2>3. (a % Pitch) - x * FONT_WIDTH = p[1] /\ (a \div Pitch) - y * FONT_HEIGHT = p[2]
    BY <1>3, <1>10, <1>11, <2>1, Zenon
  <2>4. p = <<p[1], p[2]>>
    BY DEF Cell
  <2>5. Picture(x, y, ch)[a] =
            IF <<(a % Pitch) - x * FONT_WIDTH, (a \div Pitch) - y * FONT_HEIGHT>> \in Font[ch] THEN White ELSE Black
    <3> HIDE DEF a
    <3> QED BY <2>2 DEF Picture
  <2>6. Picture(x, y, ch)[a] = IF p \in Font[ch] THEN White ELSE Black
    <3> HIDE DEF a
    <3> QED BY <2>3, <2>4, <2>5, Zenon
  <2>7. White # Black
    BY FontIs
  <2>8. Lit(Picture(x, y, ch), Pitch, x, y, p) <=> Picture(x, y, ch)[a] # Black
    BY DEF Lit, Pixel
  <2> HIDE DEF a
  <2> QED BY <2>6, <2>7, <2>8
<1> HIDE DEF A, B
<1>9. A = B
  BY <1>5, <1>6
<1> QED BY <1>7, <1>8, <1>9 DEF B

(* The pixels of a cell of the grid.                                        *)
LEMMA InGrid ==
    ASSUME mode \in Modes, NEW x \in 0 .. COLS - 1, NEW y \in 0 .. ROWS - 1, NEW p \in Cell
    PROVE  /\ y * FONT_HEIGHT + p[2] \in 0 .. mode.height - 1
           /\ x * FONT_WIDTH + p[1] \in 0 .. Paired - 1 /\ x * FONT_WIDTH + p[1] \in 0 .. mode.width - 1
           /\ x * FONT_WIDTH + p[1] \in 0 .. Pitch - 1
<1>1. /\ y * FONT_HEIGHT + p[2] \in 0 .. ROWS * FONT_HEIGHT - 1
      /\ x * FONT_WIDTH + p[1] \in 0 .. COLS * FONT_WIDTH - 1
  BY CellIs
<1>2. /\ COLS * FONT_WIDTH <= Paired /\ Paired <= mode.width /\ mode.width <= Pitch /\ Pitch \in Nat
      /\ Paired \in Nat /\ mode.width \in Nat /\ mode.height \in Nat /\ ROWS * FONT_HEIGHT <= mode.height
      /\ ROWS * FONT_HEIGHT \in Nat /\ COLS * FONT_WIDTH \in Nat
  BY ModeIs
<1> QED BY <1>1, <1>2

LEMMA CellNat ==
    ASSUME mode \in Modes, NEW x \in 0 .. COLS - 1, NEW y \in 0 .. ROWS - 1
    PROVE  x \in Nat /\ y \in Nat /\ Pitch \in Nat /\ mode.pitch \in Nat
BY ModeIs

(* A drawing shows in its own cell.                                         *)
LEMMA DrawnIs ==
    ASSUME mode \in Modes, NEW x \in 0 .. COLS - 1, cursor_y \in 0 .. ROWS - 1, NEW ch \in DOMAIN Font, Fits(Target)
    PROVE  /\ Fits(Drawn(x, ch))
           /\ \A u \in 0 .. COLS - 1 : \A v \in 0 .. ROWS - 1 :
                Char(Drawn(x, ch), Pitch, u, v) = IF u = x /\ v = cursor_y THEN ch ELSE Char(Target, Pitch, u, v)
<1> DEFINE d == Picture(x, cursor_y, ch)
           xs == Side(FONT_WIDTH, x)
           ys == Side(FONT_HEIGHT, cursor_y)
<1>1. /\ FONT_WIDTH \in Nat \ {0} /\ FONT_HEIGHT \in Nat \ {0} /\ Pitch \in Nat \ {0} /\ mode.height \in Nat
      /\ COLS \in Nat /\ ROWS \in Nat /\ mode.width \in Nat /\ mode.width <= Pitch
      /\ COLS * FONT_WIDTH \in Nat /\ COLS * FONT_WIDTH <= Paired /\ Paired <= mode.width /\ Paired \in Nat
      /\ ROWS * FONT_HEIGHT \in Nat /\ ROWS * FONT_HEIGHT <= mode.height
  BY FontIs, ModeIs
<1>2. xs \subseteq 0 .. COLS * FONT_WIDTH - 1
  BY <1>1, SideIs, Zenon
<1>3. ys \subseteq 0 .. ROWS * FONT_HEIGHT - 1
  BY <1>1, SideIs, Zenon
<1>4. /\ DOMAIN d = Addresses(Pitch, xs, ys)
      /\ \A p \in Cell : Lit(d, Pitch, x, cursor_y, p) <=> p \in Font[ch]
  BY PictureIs
<1>5. \A u \in 0 .. COLS - 1 : \A r \in 0 .. FONT_WIDTH - 1 : u * FONT_WIDTH + r \in xs <=> u = x
  BY <1>1, SideIs
<1>6. \A v \in 0 .. ROWS - 1 : \A r \in 0 .. FONT_HEIGHT - 1 : v * FONT_HEIGHT + r \in ys <=> v = cursor_y
  BY <1>1, SideIs
<1> HIDE DEF d, xs, ys
<1>7. xs \in SUBSET (0 .. mode.width - 1) /\ xs \in SUBSET (0 .. Pitch - 1) /\ ys \in SUBSET (0 .. mode.height - 1)
  BY <1>1, <1>2, <1>3
<1>8. /\ Addresses(Pitch, xs, ys) \subseteq 0 .. Pitch * mode.height - 1
      /\ \A y \in 0 .. mode.height - 1 : \A a \in 0 .. Pitch - 1 : y * Pitch + a \in Addresses(Pitch, xs, ys) <=> a \in xs /\ y \in ys
  <2>1. Pitch \in Nat \ {0} /\ mode.height \in Nat /\ xs \in SUBSET (0 .. Pitch - 1) /\ ys \in SUBSET (0 .. mode.height - 1)
    BY <1>1, <1>7
  <2>2. BoxIn(Pitch, mode.height, xs, ys)
    BY <2>1, BoxHas
  <2> QED BY <2>2 DEF BoxIn
<1>9. ASSUME NEW y \in 0 .. mode.height - 1, NEW a \in mode.width .. Pitch - 1 PROVE ~ (y * Pitch + a \in DOMAIN d)
  <2>1. a \in 0 .. Pitch - 1 /\ a \notin xs
    BY <1>1, <1>7
  <2> QED BY <1>4, <1>8, <2>1
<1>10. /\ Fits(Over(d, Target))
       /\ \A y \in 0 .. mode.height - 1 : \A a \in 0 .. Pitch - 1 :
            Pixel(Over(d, Target), Pitch, y, a) =
                IF y * Pitch + a \in DOMAIN d THEN Pixel(d, Pitch, y, a) ELSE Pixel(Target, Pitch, y, a)
  BY <1>4, <1>8, <1>9, OverFits
<1>11. Drawn(x, ch) = Over(d, Target)
  BY DEF Drawn, d
<1> DEFINE b == Over(d, Target)
<1> HIDE DEF b
<1>12. ASSUME NEW u \in 0 .. COLS - 1, NEW v \in 0 .. ROWS - 1
       PROVE  Char(b, Pitch, u, v) = IF u = x /\ v = cursor_y THEN ch ELSE Char(Target, Pitch, u, v)
  <2>1. u \in Nat /\ v \in Nat /\ Pitch \in Nat
    BY CellNat
  <2>2. ASSUME NEW p \in Cell
        PROVE  Lit(b, Pitch, u, v, p) <=> IF u = x /\ v = cursor_y THEN Lit(d, Pitch, u, v, p) ELSE Lit(Target, Pitch, u, v, p)
    <3> DEFINE y == v * FONT_HEIGHT + p[2]
               a == u * FONT_WIDTH + p[1]
    <3>1. y \in 0 .. mode.height - 1 /\ a \in 0 .. Pitch - 1
      BY InGrid
    <3>2. p[1] \in 0 .. FONT_WIDTH - 1 /\ p[2] \in 0 .. FONT_HEIGHT - 1
      BY FontIs
    <3>3. (a \in xs <=> u = x) /\ (y \in ys <=> v = cursor_y)
      BY <1>5, <1>6, <3>2
    <3> HIDE DEF y, a
    <3>4. y * Pitch + a \in DOMAIN d <=> u = x /\ v = cursor_y
      BY <1>4, <1>8, <3>1, <3>3
    <3>5. Pixel(b, Pitch, y, a) = IF u = x /\ v = cursor_y THEN Pixel(d, Pitch, y, a) ELSE Pixel(Target, Pitch, y, a)
      BY <1>10, <3>1, <3>4 DEF b
    <3> QED BY <3>5 DEF Lit, y, a
  <2>3. CASE u = x /\ v = cursor_y
    <3>1. \A p \in Cell : Lit(b, Pitch, u, v, p) <=> p \in Font[ch]
      BY <1>4, <2>2, <2>3
    <3>2. Char(b, Pitch, u, v) = ch
      BY <2>1, <3>1, CharIs
    <3> QED BY <2>3, <3>2
  <2>4. CASE ~ (u = x /\ v = cursor_y)
    <3>1. \A p \in Cell : Lit(b, Pitch, u, v, p) <=> Lit(Target, Pitch, u, v, p)
      BY <2>2, <2>4
    <3>2. Char(b, Pitch, u, v) = Char(Target, Pitch, u, v)
      BY <2>1, <3>1, CharSame
    <3> QED BY <2>4, <3>2
  <2> QED BY <2>3, <2>4
<1> QED BY <1>10, <1>11, <1>12 DEF b

(* A screen that is cleared shows spaces.                                   *)
LEMMA ClearedIs ==
    ASSUME mode \in Modes, NEW c, Fits(Target)
    PROVE  /\ Fits(Cleared(c))
           /\ c = Black => \A u \in 0 .. COLS - 1 : \A v \in 0 .. ROWS - 1 : Char(Cleared(c), Pitch, u, v) = Blank
<1> DEFINE xs == 0 .. Paired - 1
           ys == 0 .. mode.height - 1
           b == Cleared(c)
<1>1. xs \in SUBSET (0 .. mode.width - 1) /\ ys \in SUBSET (0 .. mode.height - 1)
  <2>1. Paired \in Nat /\ mode.width \in Nat /\ Paired <= mode.width
    BY ModeIs
  <2> QED BY <2>1
<1> HIDE DEF xs, ys
<1>2. /\ Fits(Over(Box(xs, ys, c), Target))
      /\ \A y \in 0 .. mode.height - 1 : \A x \in 0 .. Pitch - 1 :
            Pixel(Over(Box(xs, ys, c), Target), Pitch, y, x) = IF x \in xs /\ y \in ys THEN c ELSE Pixel(Target, Pitch, y, x)
  BY <1>1, BoxFits
<1>3. b = Over(Box(xs, ys, c), Target)
  BY DEF Cleared, xs, ys
<1> HIDE DEF b
<1>4. ASSUME c = Black, NEW u \in 0 .. COLS - 1, NEW v \in 0 .. ROWS - 1 PROVE Char(b, Pitch, u, v) = Blank
  <2>1. u \in Nat /\ v \in Nat /\ Pitch \in Nat
    BY CellNat
  <2>2. ASSUME NEW p \in Cell PROVE ~ Lit(b, Pitch, u, v, p)
    <3> DEFINE y == v * FONT_HEIGHT + p[2]
               a == u * FONT_WIDTH + p[1]
    <3>1. y \in ys /\ a \in xs /\ y \in 0 .. mode.height - 1 /\ a \in 0 .. Pitch - 1
      BY InGrid DEF xs, ys
    <3> HIDE DEF y, a
    <3>2. Pixel(b, Pitch, y, a) = Black
      BY <1>2, <1>3, <1>4, <3>1
    <3> QED BY <3>2 DEF Lit, y, a
  <2>3. Blank \in DOMAIN Font /\ Font[Blank] = {}
    BY FontIs
  <2>4. \A p \in Cell : Lit(b, Pitch, u, v, p) <=> p \in Font[Blank]
    BY <2>2, <2>3
  <2> QED BY <2>1, <2>3, <2>4, CharIs
<1> QED BY <1>2, <1>3, <1>4 DEF b

(* The rows move up by one, and the last is empty.                          *)
LEMMA ScrolledIs ==
    ASSUME mode \in Modes, NEW image, Fits(image)
    PROVE  /\ Fits(Scrolled(image))
           /\ \A u \in 0 .. COLS - 1 : \A v \in 0 .. ROWS - 1 :
                Char(Scrolled(image), Pitch, u, v) = IF v = ROWS - 1 THEN Blank ELSE Char(image, Pitch, u, v + 1)
<1> DEFINE K == (ROWS - 1) * FONT_HEIGHT
           d == [a \in 0 .. K * Pitch - 1 |-> image[a + FONT_HEIGHT * Pitch]]
           m == Over(d, image)
           xs == 0 .. Paired - 1
           ys == K .. ROWS * FONT_HEIGHT - 1
           b == Over(Box(xs, ys, Black), m)
<1>1. /\ FONT_WIDTH \in Nat \ {0} /\ FONT_HEIGHT \in Nat \ {0} /\ Pitch \in Nat \ {0} /\ mode.height \in Nat
      /\ COLS \in Nat /\ ROWS \in Nat \ {0} /\ mode.width \in Nat /\ mode.width <= Pitch
      /\ Paired <= mode.width /\ Paired \in Nat
      /\ ROWS * FONT_HEIGHT \in Nat /\ ROWS * FONT_HEIGHT <= mode.height
  BY FontIs, ModeIs
<1>2. K \in Nat /\ K + FONT_HEIGHT = ROWS * FONT_HEIGHT
  <2>1. /\ FONT_HEIGHT * ((ROWS - 1) + 1) = FONT_HEIGHT * (ROWS - 1) + FONT_HEIGHT * 1
        /\ FONT_HEIGHT * (ROWS - 1) = K /\ FONT_HEIGHT * ROWS = ROWS * FONT_HEIGHT
    BY <1>1, ProductLaws
  <2>2. (ROWS - 1) + 1 = ROWS /\ FONT_HEIGHT * 1 = FONT_HEIGHT /\ ROWS - 1 \in Nat
    BY <1>1
  <2>3. K \in Nat
    BY <1>1, <2>2
  <2> QED BY <2>1, <2>2, <2>3
<1>3. b = Scrolled(image)
  BY DEF Scrolled
<1>4. DOMAIN d = 0 .. K * Pitch - 1 /\ \A a \in DOMAIN d : d[a] = image[a + FONT_HEIGHT * Pitch]
  OBVIOUS
<1> HIDE DEF K, d
<1>5. \A y \in Nat : \A x \in 0 .. Pitch - 1 : y * Pitch + x \in DOMAIN d <=> y < K
  BY <1>1, <1>2, <1>4, StripHas
<1>6. DOMAIN d \subseteq 0 .. Pitch * mode.height - 1
  <2>1. K <= mode.height
    BY <1>1, <1>2
  <2>2. K < mode.height => Pitch * K + Pitch <= Pitch * mode.height
    BY <1>1, <1>2, ProductGrows
  <2>3. K * Pitch = Pitch * K /\ Pitch * K \in Nat /\ Pitch * mode.height \in Nat
    BY <1>1, <1>2, ProductLaws
  <2>4. K = mode.height => Pitch * K = Pitch * mode.height
    OBVIOUS
  <2>5. K * Pitch <= Pitch * mode.height
    BY <1>1, <1>2, <2>1, <2>2, <2>3, <2>4
  <2> QED BY <1>4, <2>3, <2>5
<1>7. ASSUME NEW y \in 0 .. mode.height - 1, NEW x \in 0 .. Pitch - 1, y < K
      PROVE  Pixel(d, Pitch, y, x) = Pixel(image, Pitch, y + FONT_HEIGHT, x) /\ y + FONT_HEIGHT \in 0 .. mode.height - 1
  <2>1. y * Pitch + x \in DOMAIN d
    BY <1>1, <1>5, <1>7
  <2>2. d[y * Pitch + x] = image[(y * Pitch + x) + FONT_HEIGHT * Pitch]
    BY <1>4, <2>1, Zenon
  <2>3. (y * Pitch + x) + FONT_HEIGHT * Pitch = (y + FONT_HEIGHT) * Pitch + x
    <3>1. /\ Pitch * (y + FONT_HEIGHT) = Pitch * y + Pitch * FONT_HEIGHT
          /\ Pitch * (y + FONT_HEIGHT) = (y + FONT_HEIGHT) * Pitch /\ Pitch * y = y * Pitch
          /\ Pitch * FONT_HEIGHT = FONT_HEIGHT * Pitch /\ Pitch * y \in Int /\ Pitch * FONT_HEIGHT \in Int
      BY <1>1, ProductLaws
    <3> QED BY <3>1
  <2>4. y + FONT_HEIGHT \in 0 .. mode.height - 1
    BY <1>1, <1>2, <1>7
  <2> QED BY <2>2, <2>3, <2>4 DEF Pixel
<1>8. ASSUME ~ Double, NEW y \in 0 .. mode.height - 1, NEW x \in mode.width .. Pitch - 1, y * Pitch + x \in DOMAIN d
      PROVE  Pixel(d, Pitch, y, x) = Black
  <2>1. x \in 0 .. Pitch - 1
    BY <1>1
  <2>2. y < K
    BY <1>1, <1>5, <1>8, <2>1
  <2>3. Pixel(d, Pitch, y, x) = Pixel(image, Pitch, y + FONT_HEIGHT, x) /\ y + FONT_HEIGHT \in 0 .. mode.height - 1
    BY <1>7, <2>1, <2>2
  <2> QED BY <1>8, <2>3 DEF Fits
<1>9. /\ Fits(m)
      /\ \A y \in 0 .. mode.height - 1 : \A x \in 0 .. Pitch - 1 :
            Pixel(m, Pitch, y, x) = IF y * Pitch + x \in DOMAIN d THEN Pixel(d, Pitch, y, x) ELSE Pixel(image, Pitch, y, x)
  BY <1>6, <1>8, OverFits
<1>10. \A y \in 0 .. mode.height - 1 : \A x \in 0 .. Pitch - 1 : y < K => Pixel(m, Pitch, y, x) = Pixel(image, Pitch, y + FONT_HEIGHT, x)
  BY <1>1, <1>5, <1>7, <1>9
<1>11. xs \in SUBSET (0 .. mode.width - 1) /\ ys \in SUBSET (0 .. mode.height - 1)
  BY <1>1, <1>2
<1> HIDE DEF m, xs, ys
<1>12. /\ Fits(b)
       /\ \A y \in 0 .. mode.height - 1 : \A x \in 0 .. Pitch - 1 :
            Pixel(b, Pitch, y, x) = IF x \in xs /\ y \in ys THEN Black ELSE Pixel(m, Pitch, y, x)
  BY <1>9, <1>11, BoxFits
<1> HIDE DEF b
<1>13. ASSUME NEW u \in 0 .. COLS - 1, NEW v \in 0 .. ROWS - 1
       PROVE  Char(b, Pitch, u, v) = IF v = ROWS - 1 THEN Blank ELSE Char(image, Pitch, u, v + 1)
  <2>1. u \in Nat /\ v \in Nat /\ Pitch \in Nat /\ v + 1 \in Nat
    BY CellNat
  <2>2. CASE v = ROWS - 1
    <3>1. ASSUME NEW p \in Cell PROVE ~ Lit(b, Pitch, u, v, p)
      <4> DEFINE y == v * FONT_HEIGHT + p[2]
                 a == u * FONT_WIDTH + p[1]
      <4>1. y \in 0 .. mode.height - 1 /\ a \in 0 .. Pitch - 1 /\ a \in xs
        BY InGrid DEF xs
      <4>2. y \in ys
        <5>1. y = K + p[2]
          BY <2>2 DEF K
        <5>2. p[2] \in 0 .. FONT_HEIGHT - 1
          BY FontIs
        <5> HIDE DEF y
        <5> QED BY <1>1, <1>2, <5>1, <5>2 DEF ys
      <4> HIDE DEF y, a
      <4>3. Pixel(b, Pitch, y, a) = Black
        BY <1>12, <4>1, <4>2
      <4> QED BY <4>3 DEF Lit, y, a
    <3>2. Blank \in DOMAIN Font /\ Font[Blank] = {}
      BY FontIs
    <3>3. \A p \in Cell : Lit(b, Pitch, u, v, p) <=> p \in Font[Blank]
      BY <3>1, <3>2
    <3>4. Char(b, Pitch, u, v) = Blank
      BY <2>1, <3>2, <3>3, CharIs
    <3> QED BY <2>2, <3>4
  <2>3. CASE v # ROWS - 1
    <3>0. v + 1 \in 0 .. ROWS - 1 /\ v < ROWS - 1
      BY <1>1, <2>3
    <3>1. ASSUME NEW p \in Cell PROVE Lit(b, Pitch, u, v, p) <=> Lit(image, Pitch, u, v + 1, p)
      <4> DEFINE y == v * FONT_HEIGHT + p[2]
                 a == u * FONT_WIDTH + p[1]
      <4>1. y \in 0 .. mode.height - 1 /\ a \in 0 .. Pitch - 1
        BY InGrid
      <4>2. p[2] \in 0 .. FONT_HEIGHT - 1
        BY FontIs
      <4>3. y < K
        <5>1. FONT_HEIGHT * v + FONT_HEIGHT <= FONT_HEIGHT * (ROWS - 1)
          BY <1>1, <2>1, <3>0, ProductGrows
        <5>2. FONT_HEIGHT * v = v * FONT_HEIGHT /\ FONT_HEIGHT * (ROWS - 1) = K /\ FONT_HEIGHT * v \in Int
          BY <1>1, <2>1, ProductLaws DEF K
        <5> HIDE DEF K
        <5>3. FONT_HEIGHT * v + FONT_HEIGHT <= K
          BY <5>1, <5>2
        <5>4. y = FONT_HEIGHT * v + p[2]
          BY <5>2
        <5> HIDE DEF y
        <5> QED BY <1>1, <1>2, <4>2, <5>2, <5>3, <5>4
      <4>4. y + FONT_HEIGHT = (v + 1) * FONT_HEIGHT + p[2]
        <5>1. FONT_HEIGHT * (v + 1) = FONT_HEIGHT * v + FONT_HEIGHT * 1 /\ FONT_HEIGHT * (v + 1) = (v + 1) * FONT_HEIGHT
              /\ FONT_HEIGHT * v = v * FONT_HEIGHT /\ FONT_HEIGHT * v \in Int /\ FONT_HEIGHT * 1 = FONT_HEIGHT
          BY <1>1, <2>1, ProductLaws
        <5> QED BY <1>1, <4>2, <5>1
      <4> HIDE DEF y, a
      <4>5. Pixel(m, Pitch, y, a) = Pixel(image, Pitch, y + FONT_HEIGHT, a)
        BY <1>10, <4>1, <4>3
      <4>6. y \notin ys
        BY <1>1, <1>2, <4>1, <4>3 DEF ys
      <4>7. Pixel(b, Pitch, y, a) = Pixel(image, Pitch, y + FONT_HEIGHT, a)
        BY <1>12, <4>1, <4>5, <4>6
      <4> QED BY <4>4, <4>7 DEF Lit, y, a
    <3>2. Char(b, Pitch, u, v) = Char(image, Pitch, u, v + 1)
      BY <2>1, <3>1, CharSame
    <3> QED BY <2>3, <3>2
  <2> QED BY <2>2, <2>3
<1> QED BY <1>3, <1>12, <1>13

(* The hardware's buffer has its addresses, and its padding is black.       *)
Padded(f) ==
    /\ DOMAIN f = 0 .. mode.pitch * mode.height - 1
    /\ \A a \in DOMAIN f : a % mode.pitch >= mode.width => f[a] = Black

LEMMA FitsPadded ==
    ASSUME mode \in Modes, ~ Double, NEW image, Fits(image) PROVE Padded(image)
<1>1. Pitch = mode.pitch /\ Pitch \in Nat \ {0} /\ mode.height \in Nat /\ mode.width \in Nat
  BY ModeIs DEF Pitch
<1>2. DOMAIN image = 0 .. Pitch * mode.height - 1
  BY DEF Fits
<1>3. ASSUME NEW a \in DOMAIN image, a % Pitch >= mode.width PROVE image[a] = Black
  <2> DEFINE y == a \div Pitch
             x == a % Pitch
  <2>1. y \in 0 .. mode.height - 1 /\ x \in 0 .. Pitch - 1 /\ a = y * Pitch + x
    <3>1. Pitch \in Nat \ {0} /\ mode.height \in Nat /\ a \in 0 .. Pitch * mode.height - 1
      BY <1>1, <1>2
    <3> QED BY <3>1, AddressOf, Zenon
  <2> HIDE DEF y
  <2>2. x \in mode.width .. Pitch - 1
    BY <1>1, <1>3, <2>1
  <2> HIDE DEF x
  <2>3. Pixel(image, Pitch, y, x) = Black
    BY <2>1, <2>2 DEF Fits
  <2> QED BY <2>1, <2>3, Zenon DEF Pixel
<1> QED BY <1>1, <1>2, <1>3 DEF Padded

(* A screen whose buffers are in bounds, and what is copied to it.          *)
LEMMA BoundsFit ==
    ASSUME mode \in Modes, InBounds PROVE Fits(Target) /\ Padded(front)
<1>1. Padded(front)
  BY DEF InBounds, Padded
<1>2. CASE Double
  <2>1. Target = back /\ Pitch = mode.width
    BY <1>2 DEF Target, Pitch
  <2>2. DOMAIN back = 0 .. mode.width * mode.height - 1
    BY <1>2 DEF InBounds
  <2> QED BY <1>1, <1>2, <2>1, <2>2 DEF Fits
<1>3. CASE ~ Double
  <2>1. Target = front /\ Pitch = mode.pitch
    BY <1>3 DEF Target, Pitch
  <2>2. Pitch \in Nat \ {0} /\ mode.height \in Nat /\ mode.width \in Nat
    BY ModeIs
  <2>3. ASSUME NEW y \in 0 .. mode.height - 1, NEW x \in mode.width .. Pitch - 1 PROVE Pixel(front, Pitch, y, x) = Black
    <3> DEFINE a == y * Pitch + x
    <3>1. x \in 0 .. Pitch - 1 /\ x >= mode.width
      BY <2>2
    <3>2. a \in 0 .. Pitch * mode.height - 1 /\ a % Pitch = x
      BY <2>2, <3>1, AddressIs
    <3> HIDE DEF a
    <3>3. front[a] = Black
      BY <1>1, <2>1, <3>1, <3>2 DEF Padded
    <3> QED BY <3>3 DEF Pixel, a
  <2> QED BY <1>1, <2>1, <2>3 DEF Fits, Padded
<1> QED BY <1>1, <1>2, <1>3

(* What is presented is what the buffer shows.                              *)
LEMMA CopyIs ==
    ASSUME mode \in Modes, InBounds, NEW image, Fits(image)
    PROVE  /\ Padded(Copy(image))
           /\ ~ Double => Copy(image) = image
           /\ \A u \in 0 .. COLS - 1 : \A v \in 0 .. ROWS - 1 : Char(Copy(image), mode.pitch, u, v) = Char(image, Pitch, u, v)
<1>1. CASE ~ Double
  <2>1. Copy(image) = image /\ Pitch = mode.pitch
    BY <1>1 DEF Copy, Pitch
  <2> QED BY <1>1, <2>1, FitsPadded
<1>2. CASE Double
  <2> DEFINE f == Copy(image)
             P == mode.pitch
  <2>1. /\ P \in Nat \ {0} /\ mode.height \in Nat /\ mode.width \in Nat /\ Pitch = mode.width /\ Paired <= mode.width
        /\ Paired \in Nat /\ mode.width <= P
    BY <1>2, ModeIs DEF Pitch
  <2>2. Padded(front)
    BY BoundsFit
  <2>3. /\ DOMAIN f = DOMAIN front
        /\ \A a \in DOMAIN front : f[a] = IF a % P < Paired THEN image[(a \div P) * mode.width + (a % P)] ELSE front[a]
    BY <1>2 DEF Copy
  <2> HIDE DEF f
  <2>4. ASSUME NEW a \in DOMAIN front PROVE a % P \in Nat
    <3>1. a \in 0 .. P * mode.height - 1
      BY <2>2 DEF Padded
    <3>2. a % P \in 0 .. P - 1
      BY <2>1, <3>1, AddressOf
    <3> HIDE DEF P
    <3> QED BY <2>1, <3>2
  <2>5. ASSUME NEW a \in DOMAIN front, a % P >= mode.width PROVE f[a] = Black
    <3>1. a % P \in Nat /\ ~ (a % P < Paired)
      BY <2>1, <2>4, <2>5
    <3>2. f[a] = front[a]
      BY <2>3, <3>1
    <3> QED BY <2>2, <2>5, <3>2 DEF Padded
  <2>6. Padded(f)
    BY <2>2, <2>3, <2>5 DEF Padded
  <2>7. ASSUME NEW u \in 0 .. COLS - 1, NEW v \in 0 .. ROWS - 1 PROVE Char(f, P, u, v) = Char(image, Pitch, u, v)
    <3>1. ASSUME NEW p \in Cell PROVE Lit(f, P, u, v, p) <=> Lit(image, Pitch, u, v, p)
      <4> DEFINE y == v * FONT_HEIGHT + p[2]
                 x == u * FONT_WIDTH + p[1]
                 a == y * P + x
      <4>1. y \in 0 .. mode.height - 1 /\ x \in 0 .. Paired - 1
        BY InGrid
      <4>2. x \in 0 .. P - 1 /\ x < Paired
        BY <2>1, <4>1
      <4>3. a \in 0 .. P * mode.height - 1 /\ a \div P = y /\ a % P = x
        <5>1. P \in Nat \ {0} /\ mode.height \in Nat
          BY <2>1
        <5> HIDE DEF x, y, P
        <5> QED BY <4>1, <4>2, <5>1, AddressIs
      <4> HIDE DEF a, y, x
      <4>4. a \in DOMAIN front
        BY <2>2, <4>3 DEF Padded
      <4>5. f[a] = image[y * mode.width + x]
        BY <2>3, <4>2, <4>3, <4>4
      <4>6. Pixel(f, P, y, x) = Pixel(image, Pitch, y, x)
        BY <2>1, <4>5 DEF Pixel, a
      <4> QED BY <4>6 DEF Lit, y, x
    <3>2. u \in Nat /\ v \in Nat /\ Pitch \in Nat /\ P \in Nat
      BY CellNat
    <3> QED BY <3>1, <3>2, CharSame
  <2> QED BY <1>2, <2>6, <2>7 DEF f
<1> QED BY <1>1, <1>2

(* The step that draws.                                                    *)
LEMMA BufferIs ==
    ASSUME mode \in Modes, NEW image, Fits(image) PROVE image # NoBuffer
<1>1. 0 \in DOMAIN image
  <2>1. Pitch \in Nat \ {0} /\ mode.height \in Nat \ {0}
    BY ModeIs
  <2>2. Pitch * mode.height \in Nat \ {0}
    BY <2>1
  <2>3. DOMAIN image = 0 .. Pitch * mode.height - 1
    BY DEF Fits
  <2> QED BY <2>2, <2>3
<1>2. DOMAIN NoBuffer = {}
  BY DEF NoBuffer
<1> QED BY <1>1, <1>2

LEMMA SameScreen ==
    ASSUME mode' = mode PROVE COLS' = COLS /\ ROWS' = ROWS
BY DEF COLS, ROWS

(* Draws, Shows and fb_present, when what is drawn fits.                    *)
LEMMA DrawsKeep ==
    ASSUME mode \in Modes, InBounds, NEW image, Fits(image), Draws(image)
    PROVE  mode' = mode /\ InBounds' /\ Pitch' = Pitch /\ Target' = image
<1>1. Padded(front) /\ image # NoBuffer
  BY BoundsFit, BufferIs
<1>2. CASE Double
  <2>1. back' = image /\ front' = front /\ mode' = mode
    BY <1>2 DEF Draws
  <2>2. Double'
    BY <1>1, <2>1 DEF Double, NoBuffer
  <2>3. Pitch = mode.width
    BY <1>2 DEF Pitch
  <2>4. DOMAIN image = 0 .. mode.width * mode.height - 1
    BY <2>3 DEF Fits
  <2> QED BY <1>1, <1>2, <2>1, <2>2, <2>4 DEF InBounds, Padded, Pitch, Target
<1>3. CASE ~ Double
  <2>1. front' = image /\ back' = back /\ mode' = mode
    BY <1>3 DEF Draws
  <2>2. ~ Double'
    BY <1>3, <2>1 DEF Double, NoBuffer
  <2>3. Padded(image)
    BY <1>3, FitsPadded
  <2> QED BY <1>3, <2>1, <2>2, <2>3 DEF InBounds, Padded, Pitch, Target
<1> QED BY <1>2, <1>3

LEMMA ShowsKeep ==
    ASSUME mode \in Modes, InBounds, NEW image, Fits(image), Shows(image)
    PROVE  mode' = mode /\ InBounds' /\ Pitch' = Pitch /\ Target' = image /\ front' = Copy(image)
<1>1. Padded(Copy(image)) /\ (~ Double => Copy(image) = image) /\ image # NoBuffer
  BY CopyIs, BufferIs
<1>2. front' = Copy(image) /\ mode' = mode
  BY DEF Shows
<1>3. CASE Double
  <2>1. back' = image
    BY <1>3 DEF Shows
  <2>2. Double'
    BY <1>1, <2>1 DEF Double, NoBuffer
  <2>3. Pitch = mode.width
    BY <1>3 DEF Pitch
  <2>4. DOMAIN image = 0 .. mode.width * mode.height - 1
    BY <2>3 DEF Fits
  <2> QED BY <1>1, <1>2, <1>3, <2>1, <2>2, <2>4 DEF InBounds, Padded, Pitch, Target
<1>4. CASE ~ Double
  <2>1. back' = back
    BY <1>4 DEF Shows
  <2>2. ~ Double'
    BY <1>4, <2>1 DEF Double, NoBuffer
  <2> QED BY <1>1, <1>2, <1>4, <2>1, <2>2 DEF InBounds, Padded, Pitch, Target
<1> QED BY <1>3, <1>4

LEMMA PresentKeeps ==
    ASSUME mode \in Modes, InBounds, fb_present
    PROVE  mode' = mode /\ InBounds' /\ Pitch' = Pitch /\ Target' = Target /\ front' = Copy(Target)
<1>1. Fits(Target)
  BY BoundsFit
<1>2. Shows(Target)
  <2>1. CASE Double
    BY <2>1 DEF fb_present, Shows, Target
  <2>2. CASE ~ Double
    BY <2>2 DEF fb_present, Shows
  <2> QED BY <2>1, <2>2
<1> QED BY <1>1, <1>2, ShowsKeep

(* What the tests fill stays inside.                                        *)
LEMMA FillFits ==
    ASSUME mode \in Modes, InBounds, NEW r \in Rects, NEW c, fb_fill_rect(r.x, r.y, r.w, r.h, c)
    PROVE  UNCHANGED frame \/ \E image : Fits(image) /\ Draws(image)
<1> DEFINE x == r.x
           y == r.y
           w == r.w
           h == r.h
           width == mode.width
           height == mode.height
<1>1. x \in Nat /\ y \in Nat /\ w \in Nat /\ h \in Nat /\ x + w < 2 ^ W /\ y + h < 2 ^ W
  <2>1. {x, y, w, h} \subseteq Nat /\ x + w < 2 ^ W /\ y + h < 2 ^ W
    BY ConsoleAssumption
  <2> QED BY <2>1
<1>2. Fits(Target) /\ width \in Nat /\ height \in Nat
  BY BoundsFit, ModeIs
<1>3. \A num \in Nat : num < 2 ^ W => Wrap(num) = num
  <2>1. 2 ^ W \in Nat
    BY ModesAssumption
  <2>2. PICK m \in Nat : m = 2 ^ W
    BY <2>1
  <2>3. \A num \in Nat : num < m => num % m = num
    OBVIOUS
  <2> QED BY <2>2, <2>3 DEF Wrap
<1>4. Wrap(x + w) = x + w /\ Wrap(y + h) = y + h
  BY <1>1, <1>3
<1> HIDE DEF x, y, w, h
<1>5. CASE x >= width \/ y >= height
  <2>1. UNCHANGED frame
    BY <1>5 DEF fb_fill_rect, x, y, w, h
  <2> QED BY <2>1
<1>6. CASE ~ (x >= width \/ y >= height)
  <2> DEFINE side == Clip(x, y, w, h)
             xs == x .. x + side[1] - 1
             ys == y .. y + side[2] - 1
             image == Over(Box(xs, ys, c), Target)
  <2>1. side[1] = IF x + w > width THEN width - x ELSE w
    BY <1>4 DEF Clip
  <2>2. side[2] = IF y + h > height THEN height - y ELSE h
    BY <1>4 DEF Clip
  <2>3. Draws(image)
    BY <1>6 DEF fb_fill_rect, x, y, w, h
  <2> HIDE DEF side
  <2>4. xs \in SUBSET (0 .. width - 1)
    <3> HIDE DEF width
    <3> QED BY <1>1, <1>2, <1>6, <2>1
  <2>5. ys \in SUBSET (0 .. height - 1)
    <3> HIDE DEF height
    <3> QED BY <1>1, <1>2, <1>6, <2>2
  <2> HIDE DEF xs, ys
  <2>6. Fits(image)
    BY <1>2, <2>4, <2>5, BoxFits
  <2> QED BY <2>3, <2>6
<1> QED BY <1>5, <1>6

(* A grid is rows of characters.                                            *)
Shown == DOMAIN Font \cup {"?"}
Rows == [1 .. COLS -> Shown]

(* The grid is a sequence of rows of characters.                            *)
LEMMA GridIs ==
    ASSUME mode \in Modes, NEW b, NEW P
    PROVE  /\ Grid(b, P) \in Seq(Rows) /\ Len(Grid(b, P)) = ROWS /\ DOMAIN Grid(b, P) = 1 .. ROWS
           /\ \A r \in 1 .. ROWS : Grid(b, P)[r] = Row(b, P, r - 1) /\ Grid(b, P)[r] \in Rows
           /\ \A r \in 1 .. ROWS : \A i \in 1 .. COLS : Grid(b, P)[r][i] = Char(b, P, i - 1, r - 1)
<1>1. COLS \in Nat /\ ROWS \in Nat
  BY ModeIs
<1>2. \A x, y : Char(b, P, x, y) \in Shown
  <2> SUFFICES ASSUME NEW x, NEW y PROVE Char(b, P, x, y) \in Shown
    OBVIOUS
  <2> DEFINE lit == {p \in Cell : b[(y * FONT_HEIGHT + p[2]) * P + x * FONT_WIDTH + p[1]] # Black}
  <2>1. Char(b, P, x, y) = IF \E d \in DOMAIN Font : Font[d] = lit THEN CHOOSE d \in DOMAIN Font : Font[d] = lit ELSE "?"
    BY Zenon DEF Char
  <2> HIDE DEF lit
  <2> QED BY <2>1 DEF Shown
<1>3. \A y : Row(b, P, y) \in Rows
  BY <1>2 DEF Row, Rows
<1>4. Grid(b, P) = [r \in 1 .. ROWS |-> Row(b, P, r - 1)]
  BY DEF Grid
<1>5. Grid(b, P) \in [1 .. ROWS -> Rows]
  BY <1>3, <1>4
<1>6. \A r \in 1 .. ROWS : \A i \in 1 .. COLS : Grid(b, P)[r][i] = Char(b, P, i - 1, r - 1)
  BY <1>4 DEF Row
<1> HIDE DEF Rows
<1>7. Grid(b, P) \in Seq(Rows) /\ Len(Grid(b, P)) = ROWS
  BY <1>1, <1>5
<1> QED BY <1>3, <1>4, <1>5, <1>6, <1>7

(* Buffers that are lit alike have the same grid.                           *)
LEMMA GridSame ==
    ASSUME mode \in Modes, NEW b, NEW P, NEW c, NEW Q,
           \A u \in 0 .. COLS - 1 : \A v \in 0 .. ROWS - 1 : Char(b, P, u, v) = Char(c, Q, u, v)
    PROVE  Grid(b, P) = Grid(c, Q)
<1>1. COLS \in Nat /\ ROWS \in Nat
  BY ModeIs
<1>2. ASSUME NEW r \in 1 .. ROWS PROVE Row(b, P, r - 1) = Row(c, Q, r - 1)
  <2>1. \A i \in 1 .. COLS : Char(b, P, i - 1, r - 1) = Char(c, Q, i - 1, r - 1)
    BY <1>1
  <2> QED BY <2>1 DEF Row
<1> QED BY <1>2 DEF Grid

(* A drawn character changes its cell of the grid.                          *)
LEMMA DrawnGrid ==
    ASSUME mode \in Modes, NEW x \in 0 .. COLS - 1, cursor_y \in 0 .. ROWS - 1, NEW ch \in DOMAIN Font, Fits(Target)
    PROVE  Grid(Drawn(x, ch), Pitch) = [cells EXCEPT ![cursor_y + 1] = [@ EXCEPT ![x + 1] = ch]]
<1> DEFINE G == Grid(Drawn(x, ch), Pitch)
           N == [cells EXCEPT ![cursor_y + 1] = [@ EXCEPT ![x + 1] = ch]]
<1>1. COLS \in Nat /\ ROWS \in Nat
  BY ModeIs
<1>2. \A u \in 0 .. COLS - 1 : \A v \in 0 .. ROWS - 1 :
        Char(Drawn(x, ch), Pitch, u, v) = IF u = x /\ v = cursor_y THEN ch ELSE Char(Target, Pitch, u, v)
  BY DrawnIs
<1>3. /\ G \in [1 .. ROWS -> Rows]
      /\ \A r \in 1 .. ROWS : \A i \in 1 .. COLS : G[r][i] = Char(Drawn(x, ch), Pitch, i - 1, r - 1)
  BY <1>1, GridIs
<1>4. /\ cells \in [1 .. ROWS -> Rows]
      /\ \A r \in 1 .. ROWS : \A i \in 1 .. COLS : cells[r][i] = Char(Target, Pitch, i - 1, r - 1)
  BY <1>1, GridIs DEF cells
<1> HIDE DEF G
<1>5. ASSUME NEW r \in 1 .. ROWS PROVE G[r] = N[r]
  <2>1. G[r] \in [1 .. COLS -> Shown] /\ cells[r] \in [1 .. COLS -> Shown]
    BY <1>3, <1>4 DEF Rows
  <2>2. N[r] = IF r = cursor_y + 1 THEN [cells[r] EXCEPT ![x + 1] = ch] ELSE cells[r]
    BY <1>4
  <2>3. ASSUME NEW i \in 1 .. COLS PROVE G[r][i] = IF i - 1 = x /\ r - 1 = cursor_y THEN ch ELSE cells[r][i]
    <3>1. i - 1 \in 0 .. COLS - 1 /\ r - 1 \in 0 .. ROWS - 1
      BY <1>1
    <3>2. Char(Drawn(x, ch), Pitch, i - 1, r - 1) = IF i - 1 = x /\ r - 1 = cursor_y THEN ch ELSE Char(Target, Pitch, i - 1, r - 1)
      BY <1>2, <3>1
    <3> QED BY <1>3, <1>4, <3>2
  <2>4. r - 1 = cursor_y <=> r = cursor_y + 1
    BY <1>1
  <2>5. \A i \in 1 .. COLS : i - 1 = x <=> i = x + 1
    BY <1>1
  <2>6. CASE r = cursor_y + 1
    <3>1. N[r] = [cells[r] EXCEPT ![x + 1] = ch]
      BY <2>2, <2>6
    <3>2. \A i \in 1 .. COLS : G[r][i] = IF i = x + 1 THEN ch ELSE cells[r][i]
      BY <2>3, <2>4, <2>5, <2>6
    <3> HIDE DEF N
    <3> QED BY <2>1, <3>1, <3>2
  <2>7. CASE r # cursor_y + 1
    <3>1. N[r] = cells[r]
      BY <2>2, <2>7
    <3>2. \A i \in 1 .. COLS : G[r][i] = cells[r][i]
      BY <2>3, <2>4, <2>7
    <3> HIDE DEF N
    <3>3. G[r] = cells[r]
      <4>1. G[r] = [i \in 1 .. COLS |-> G[r][i]] /\ cells[r] = [i \in 1 .. COLS |-> cells[r][i]]
        BY <2>1
      <4>2. [i \in 1 .. COLS |-> G[r][i]] = [i \in 1 .. COLS |-> cells[r][i]]
        BY <3>2, Zenon
      <4> QED BY <4>1, <4>2, Zenon
    <3> QED BY <3>1, <3>3
  <2> QED BY <2>6, <2>7
<1>6. N = [r \in 1 .. ROWS |-> N[r]]
  BY <1>4
<1> HIDE DEF N
<1>7. G = [r \in 1 .. ROWS |-> G[r]]
  BY <1>3
<1>8. [r \in 1 .. ROWS |-> G[r]] = [r \in 1 .. ROWS |-> N[r]]
  BY <1>5
<1>9. G = N
  BY <1>6, <1>7, <1>8, Zenon
<1> QED BY <1>9 DEF G, N

(* A scroll moves the rows up and empties the last.                         *)
LEMMA ScrolledGrid ==
    ASSUME mode \in Modes, NEW image, Fits(image)
    PROVE  Grid(Scrolled(image), Pitch) = [r \in 1 .. ROWS |-> IF r = ROWS THEN EmptyRow ELSE Grid(image, Pitch)[r + 1]]
<1>1. COLS \in Nat /\ ROWS \in Nat \ {0}
  BY ModeIs
<1>2. \A u \in 0 .. COLS - 1 : \A v \in 0 .. ROWS - 1 :
        Char(Scrolled(image), Pitch, u, v) = IF v = ROWS - 1 THEN Blank ELSE Char(image, Pitch, u, v + 1)
  BY ScrolledIs
<1>3. ASSUME NEW r \in 1 .. ROWS
      PROVE  Row(Scrolled(image), Pitch, r - 1) = IF r = ROWS THEN EmptyRow ELSE Grid(image, Pitch)[r + 1]
  <2>1. CASE r = ROWS
    <3>1. \A i \in 1 .. COLS : Char(Scrolled(image), Pitch, i - 1, r - 1) = Blank
      BY <1>1, <1>2, <2>1
    <3>2. Row(Scrolled(image), Pitch, r - 1) = EmptyRow
      BY <3>1 DEF Row, EmptyRow
    <3> QED BY <2>1, <3>2
  <2>2. CASE r # ROWS
    <3>1. \A i \in 1 .. COLS : Char(Scrolled(image), Pitch, i - 1, r - 1) = Char(image, Pitch, i - 1, (r - 1) + 1)
      BY <1>1, <1>2, <2>2
    <3>2. (r - 1) + 1 = (r + 1) - 1 /\ r + 1 \in 1 .. ROWS
      BY <1>1, <2>2
    <3>3. Grid(image, Pitch)[r + 1] = Row(image, Pitch, (r + 1) - 1)
      BY <3>2, GridIs
    <3>4. Row(Scrolled(image), Pitch, r - 1) = Row(image, Pitch, (r - 1) + 1)
      BY <3>1 DEF Row
    <3> QED BY <2>2, <3>2, <3>3, <3>4
  <2> QED BY <2>1, <2>2
<1> QED BY <1>3 DEF Grid

(* A clear empties every row.                                               *)
LEMMA ClearedGrid ==
    ASSUME mode \in Modes, Fits(Target)
    PROVE  Grid(Cleared(Black), Pitch) = [r \in 1 .. ROWS |-> EmptyRow]
<1>1. COLS \in Nat /\ ROWS \in Nat \ {0}
  BY ModeIs
<1>2. \A u \in 0 .. COLS - 1 : \A v \in 0 .. ROWS - 1 : Char(Cleared(Black), Pitch, u, v) = Blank
  BY ClearedIs
<1>3. ASSUME NEW r \in 1 .. ROWS PROVE Row(Cleared(Black), Pitch, r - 1) = EmptyRow
  <2>1. \A i \in 1 .. COLS : Char(Cleared(Black), Pitch, i - 1, r - 1) = Blank
    BY <1>1, <1>2
  <2> QED BY <2>1 DEF Row, EmptyRow
<1> QED BY <1>3 DEF Grid

(* The grid after a step.                                                   *)
LEMMA CellsAre ==
    ASSUME NEW image, mode' = mode, Pitch' = Pitch, Target' = image
    PROVE  cells' = Grid(image, Pitch) /\ EmptyRow' = EmptyRow /\ Rows' = Rows
<1>1. COLS' = COLS /\ ROWS' = ROWS
  BY SameScreen
<1>2. cells' = Grid(Target', Pitch')
  BY <1>1 DEF cells, Grid, Row, Char
<1> QED BY <1>1, <1>2 DEF EmptyRow, Rows

(* After fb_present the two buffers show the same.                          *)
LEMMA ShownAre ==
    ASSUME mode \in Modes, InBounds, NEW image, Fits(image), mode' = mode, front' = Copy(image), Pitch' = Pitch, Target' = image
    PROVE  shown' = cells'
<1>1. COLS' = COLS /\ ROWS' = ROWS
  BY SameScreen
<1>2. shown' = Grid(front', mode'.pitch)
  BY <1>1 DEF shown, Grid, Row, Char
<1>3. \A u \in 0 .. COLS - 1 : \A v \in 0 .. ROWS - 1 : Char(Copy(image), mode.pitch, u, v) = Char(image, Pitch, u, v)
  BY CopyIs
<1>4. Grid(Copy(image), mode.pitch) = Grid(image, Pitch)
  BY <1>3, GridSame
<1> QED BY <1>2, <1>4, CellsAre

(* What a page is, as a sequence of rows: the rows that are gone and those  *)
(* of the grid down to the cursor.                                          *)
LEMMA PageIs ==
    ASSUME NEW R, NEW g \in Seq(R), NEW G \in Seq(R), NEW k \in 0 .. Len(G)
    PROVE  /\ g \o SubSeq(G, 1, k) \in Seq(R)
           /\ Len(g \o SubSeq(G, 1, k)) = Len(g) + k
           /\ \A i \in 1 .. Len(g) + k : (g \o SubSeq(G, 1, k))[i] = IF i <= Len(g) THEN g[i] ELSE G[i - Len(g)]
<1> DEFINE s == SubSeq(G, 1, k)
<1>1. Len(G) \in Nat /\ Len(g) \in Nat /\ k \in Nat
  BY LenProperties
<1>2. \A i \in 1 .. k : G[i] \in R
  BY <1>1, ElementOfSeq
<1>3. s \in Seq(R) /\ Len(s) = k /\ \A i \in 1 .. k : s[i] = G[i]
  <2>1. s \in Seq(R) /\ Len(s) = (IF 1 <= k THEN k - 1 + 1 ELSE 0) /\ \A i \in 1 .. k - 1 + 1 : s[i] = G[1 + i - 1]
    BY <1>1, <1>2, SubSeqProperties
  <2>2. (IF 1 <= k THEN k - 1 + 1 ELSE 0) = k /\ k - 1 + 1 = k /\ \A i \in 1 .. k : 1 + i - 1 = i
    BY <1>1
  <2> QED BY <2>1, <2>2
<1> HIDE DEF s
<1>4. /\ g \o s \in Seq(R) /\ Len(g \o s) = Len(g) + k
      /\ \A i \in 1 .. Len(g) + k : (g \o s)[i] = IF i <= Len(g) THEN g[i] ELSE s[i - Len(g)]
  BY <1>3, ConcatProperties
<1>5. \A i \in 1 .. Len(g) + k : ~ (i <= Len(g)) => s[i - Len(g)] = G[i - Len(g)]
  BY <1>1, <1>3
<1> QED BY <1>4, <1>5 DEF s

(* One row more of the grid; the grid moved up; one row drawn on.           *)
LEMMA PageGrows ==
    ASSUME NEW R, NEW g \in Seq(R), NEW G \in Seq(R), NEW k \in 0 .. Len(G) - 1
    PROVE  g \o SubSeq(G, 1, k + 1) = Append(g \o SubSeq(G, 1, k), G[k + 1])
<1> DEFINE p == g \o SubSeq(G, 1, k)
           q == g \o SubSeq(G, 1, k + 1)
<1>1. Len(G) \in Nat /\ Len(g) \in Nat
  BY LenProperties
<1>2. k \in 0 .. Len(G) /\ k + 1 \in 0 .. Len(G) /\ G[k + 1] \in R
  BY <1>1, ElementOfSeq
<1>3. p \in Seq(R) /\ Len(p) = Len(g) + k /\ \A i \in 1 .. Len(g) + k : p[i] = IF i <= Len(g) THEN g[i] ELSE G[i - Len(g)]
  BY <1>2, PageIs
<1>4. q \in Seq(R) /\ Len(q) = Len(g) + (k + 1)
      /\ \A i \in 1 .. Len(g) + (k + 1) : q[i] = IF i <= Len(g) THEN g[i] ELSE G[i - Len(g)]
  BY <1>2, PageIs
<1> HIDE DEF p, q
<1> DEFINE a == Append(p, G[k + 1])
<1>5. /\ a \in Seq(R) /\ Len(a) = Len(p) + 1 /\ a[Len(p) + 1] = G[k + 1]
      /\ \A i \in 1 .. Len(p) : a[i] = p[i]
  BY <1>2, <1>3, AppendProperties
<1> HIDE DEF a
<1>6. ASSUME NEW i \in 1 .. Len(q) PROVE q[i] = a[i]
  <2>1. CASE i <= Len(g) + k
    <3>1. i \in 1 .. Len(p) /\ i \in 1 .. Len(g) + k /\ i \in 1 .. Len(g) + (k + 1)
      BY <1>1, <1>3, <1>4, <2>1
    <3> QED BY <1>3, <1>4, <1>5, <3>1
  <2>2. CASE ~ (i <= Len(g) + k)
    <3>1. i = Len(g) + (k + 1) /\ i = Len(p) + 1 /\ ~ (i <= Len(g)) /\ i - Len(g) = k + 1
      BY <1>1, <1>3, <1>4, <2>2
    <3>2. q[i] = G[k + 1]
      BY <1>4, <3>1
    <3> QED BY <1>5, <3>1, <3>2
  <2> QED BY <2>1, <2>2
<1>7. Len(q) = Len(a)
  BY <1>1, <1>3, <1>4, <1>5
<1>8. q = a
  BY <1>4, <1>5, <1>6, <1>7, SeqEqual
<1> QED BY <1>8 DEF a, p, q

LEMMA PageScrolls ==
    ASSUME NEW R, NEW g \in Seq(R), NEW G \in Seq(R), Len(G) # 0, NEW e \in R,
           NEW H \in Seq(R), Len(H) = Len(G), \A r \in 1 .. Len(G) : H[r] = IF r = Len(G) THEN e ELSE G[r + 1]
    PROVE  Append(g, G[1]) \o SubSeq(H, 1, Len(G)) = Append(g \o SubSeq(G, 1, Len(G)), e)
<1> DEFINE num == Len(G)
           h == Append(g, G[1])
           p == g \o SubSeq(G, 1, num)
           q == h \o SubSeq(H, 1, num)
           a == Append(p, e)
<1>1. num \in Nat \ {0} /\ Len(g) \in Nat /\ G[1] \in R
  BY LenProperties, ElementOfSeq
<1>2. h \in Seq(R) /\ Len(h) = Len(g) + 1 /\ h[Len(g) + 1] = G[1] /\ \A i \in 1 .. Len(g) : h[i] = g[i]
  BY <1>1, AppendProperties
<1> HIDE DEF h, num
<1>3. p \in Seq(R) /\ Len(p) = Len(g) + num /\ \A i \in 1 .. Len(g) + num : p[i] = IF i <= Len(g) THEN g[i] ELSE G[i - Len(g)]
  <2>1. num \in 0 .. Len(G)
    BY <1>1 DEF num
  <2> QED BY <2>1, PageIs
<1>4. q \in Seq(R) /\ Len(q) = Len(h) + num /\ \A i \in 1 .. Len(h) + num : q[i] = IF i <= Len(h) THEN h[i] ELSE H[i - Len(h)]
  <2>1. h \in Seq(R) /\ H \in Seq(R) /\ num \in 0 .. Len(H)
    BY <1>1, <1>2 DEF num
  <2> QED BY <2>1, PageIs
<1> HIDE DEF p, q
<1>5. a \in Seq(R) /\ Len(a) = Len(p) + 1 /\ a[Len(p) + 1] = e /\ \A i \in 1 .. Len(p) : a[i] = p[i]
  <2>1. p \in Seq(R) /\ e \in R
    BY <1>3
  <2> QED BY <2>1
<1> HIDE DEF a
<1>6. \A r \in 1 .. num : H[r] = IF r = num THEN e ELSE G[r + 1]
  BY DEF num
<1>7. ASSUME NEW i \in 1 .. Len(q) PROVE q[i] = a[i]
  <2>1. CASE i <= Len(g)
    <3>1. i \in 1 .. Len(g) /\ i \in 1 .. Len(p) /\ i <= Len(h) /\ i \in 1 .. Len(h) + num /\ i \in 1 .. Len(g) + num
      BY <1>1, <1>2, <1>3, <1>4, <2>1
    <3> QED BY <1>2, <1>3, <1>4, <1>5, <2>1, <3>1
  <2>2. CASE i = Len(g) + 1
    <3>1. i \in 1 .. Len(p) /\ i <= Len(h) /\ ~ (i <= Len(g)) /\ i - Len(g) = 1 /\ i \in 1 .. Len(h) + num /\ i \in 1 .. Len(g) + num
      BY <1>1, <1>2, <1>3, <1>4, <2>2
    <3>2. q[i] = G[1]
      BY <1>2, <1>4, <2>2, <3>1
    <3>3. a[i] = G[1]
      BY <1>3, <1>5, <3>1
    <3> QED BY <3>2, <3>3
  <2>3. CASE Len(g) + 1 < i /\ i < Len(g) + 1 + num
    <3>1. /\ i \in 1 .. Len(p) /\ ~ (i <= Len(h)) /\ ~ (i <= Len(g)) /\ i \in 1 .. Len(h) + num /\ i \in 1 .. Len(g) + num
          /\ i - Len(h) \in 1 .. num /\ i - Len(h) # num /\ (i - Len(h)) + 1 = i - Len(g)
      BY <1>1, <1>2, <1>3, <1>4, <2>3
    <3>2. q[i] = G[i - Len(g)]
      BY <1>4, <1>6, <3>1
    <3>3. a[i] = G[i - Len(g)]
      BY <1>3, <1>5, <3>1
    <3> QED BY <3>2, <3>3
  <2>4. CASE i = Len(g) + 1 + num
    <3>1. i = Len(p) + 1 /\ ~ (i <= Len(h)) /\ i \in 1 .. Len(h) + num /\ i - Len(h) = num /\ num \in 1 .. num
      BY <1>1, <1>2, <1>3, <1>4, <2>4
    <3>2. q[i] = e
      BY <1>4, <1>6, <3>1
    <3> QED BY <1>5, <3>1, <3>2
  <2>5. i \in Nat /\ Len(g) \in Nat /\ num \in Nat \ {0} /\ i \in 1 .. Len(g) + 1 + num
    BY <1>1, <1>2, <1>4
  <2>6. i <= Len(g) \/ i = Len(g) + 1 \/ (Len(g) + 1 < i /\ i < Len(g) + 1 + num) \/ i = Len(g) + 1 + num
    <3> DEFINE l == Len(g)
    <3> HIDE DEF l
    <3>1. i \in Nat /\ l \in Nat /\ num \in Nat \ {0} /\ i \in 1 .. l + 1 + num
      BY <2>5 DEF l
    <3>2. i <= l \/ i = l + 1 \/ (l + 1 < i /\ i < l + 1 + num) \/ i = l + 1 + num
      BY <3>1
    <3> QED BY <3>2 DEF l
  <2> QED BY <2>1, <2>2, <2>3, <2>4, <2>6
<1>8. Len(q) = Len(a)
  BY <1>1, <1>2, <1>3, <1>4, <1>5
<1>9. q = a
  BY <1>4, <1>5, <1>7, <1>8, SeqEqual
<1> QED BY <1>9 DEF a, p, q, h, num

Differs(s, t, k, w) == Len(s) = Len(t) /\ \A i \in 1 .. Len(t) : s[i] = IF i = k THEN w ELSE t[i]

(* A character drawn on the last row of the page.                           *)
LEMMA PageDrawn ==
    ASSUME NEW R, NEW g \in Seq(R), NEW G \in Seq(R), NEW k \in 1 .. Len(G), NEW w \in R,
           NEW H \in Seq(R), Differs(H, G, k, w),
           NEW a \in Seq(R), Differs(a, g \o SubSeq(G, 1, k), Len(g \o SubSeq(G, 1, k)), w)
    PROVE  /\ (g \o SubSeq(G, 1, k))[Len(g \o SubSeq(G, 1, k))] = G[k]
           /\ g \o SubSeq(H, 1, k) = a
<1> DEFINE p == g \o SubSeq(G, 1, k)
<1>0. /\ Len(H) = Len(G) /\ \A i \in 1 .. Len(G) : H[i] = IF i = k THEN w ELSE G[i]
      /\ Len(a) = Len(p) /\ \A i \in 1 .. Len(p) : a[i] = IF i = Len(p) THEN w ELSE p[i]
  BY DEF Differs
<1> DEFINE q == g \o SubSeq(H, 1, k)
<1>1. Len(G) \in Nat /\ Len(g) \in Nat /\ k \in Nat \ {0} /\ k \in 0 .. Len(G)
  BY LenProperties
<1>3. Len(p) = Len(g) + k /\ \A i \in 1 .. Len(g) + k : p[i] = IF i <= Len(g) THEN g[i] ELSE G[i - Len(g)]
  BY <1>1, PageIs
<1>4. q \in Seq(R) /\ Len(q) = Len(g) + k /\ \A i \in 1 .. Len(g) + k : q[i] = IF i <= Len(g) THEN g[i] ELSE H[i - Len(g)]
  BY <1>0, <1>1, PageIs
<1> HIDE DEF p, q
<1>7. ASSUME NEW i \in 1 .. Len(q) PROVE q[i] = a[i]
  <2>0. i \in 1 .. Len(p) /\ i \in 1 .. Len(g) + k
    BY <1>3, <1>4
  <2>1. CASE i <= Len(g)
    <3>1. i # Len(p)
      BY <1>1, <1>3, <2>1
    <3>2. q[i] = g[i] /\ p[i] = g[i]
      BY <1>3, <1>4, <2>0, <2>1
    <3> QED BY <1>0, <2>0, <3>1, <3>2
  <2>2. CASE ~ (i <= Len(g))
    <3>1. i - Len(g) \in 1 .. Len(G) /\ (i - Len(g) = k <=> i = Len(p))
      BY <1>1, <1>3, <2>0, <2>2
    <3>2. q[i] = IF i = Len(p) THEN w ELSE G[i - Len(g)]
      BY <1>0, <1>4, <2>0, <2>2, <3>1
    <3>3. p[i] = G[i - Len(g)]
      BY <1>3, <2>0, <2>2
    <3> QED BY <1>0, <2>0, <3>2, <3>3
  <2> QED BY <2>1, <2>2
<1>8. q = a
  <2>1. Len(q) = Len(a)
    BY <1>0, <1>3, <1>4
  <2> QED BY <1>4, <1>7, <2>1, SeqEqual
<1>9. Len(p) # 0 /\ p[Len(p)] = G[k]
  <2>1. Len(p) \in 1 .. Len(g) + k /\ ~ (Len(p) <= Len(g)) /\ Len(p) - Len(g) = k
    BY <1>1, <1>3
  <2> QED BY <1>1, <1>3, <2>1
<1> QED BY <1>8, <1>9 DEF p, q

ScreenInv ==
    /\ mode \in Modes /\ InBounds
    /\ cursor_x \in 0 .. COLS - 1 /\ cursor_y \in 0 .. ROWS - 1
    /\ gone \in Seq(Rows)
BelowInv == \A r \in cursor_y + 2 .. ROWS : cells[r] = EmptyRow
PageNow == gone \o SubSeq(cells, 1, cursor_y + 1)
Grown(pg, col) == IF col < COLS THEN pg ELSE Append(pg, EmptyRow)
Wrapped(col) == IF col < COLS THEN col ELSE 0

LEMMA EmptyIs == EmptyRow \in Rows
BY FontIs DEF EmptyRow, Rows, Shown

(* Advance moves the cursor on, to the next row, or scrolls.                *)
LEMMA AdvanceIs ==
    ASSUME ScreenInv, NEW image, Fits(image), NEW x \in Nat, Advance(image, x),
           \A r \in cursor_y + 2 .. ROWS : Grid(image, Pitch)[r] = EmptyRow
    PROVE  /\ ScreenInv' /\ BelowInv' /\ mode' = mode
           /\ cursor_x' = Wrapped(x)
           /\ PageNow' = Grown(gone \o SubSeq(Grid(image, Pitch), 1, cursor_y + 1), x)
           /\ x < COLS => cursor_y' = cursor_y /\ cells' = Grid(image, Pitch)
<1> DEFINE G == Grid(image, Pitch)
           k == cursor_y + 1
<1>1. /\ mode \in Modes /\ InBounds /\ cursor_x \in 0 .. COLS - 1 /\ cursor_y \in 0 .. ROWS - 1 /\ gone \in Seq(Rows)
      /\ COLS \in Nat \ {0} /\ ROWS \in Nat \ {0}
  BY ModeIs DEF ScreenInv
<1>2. G \in Seq(Rows) /\ Len(G) = ROWS /\ G[1] = Row(image, Pitch, 0) /\ G[1] \in Rows /\ DOMAIN G = 1 .. ROWS
  BY <1>1, GridIs
<1>3. EmptyRow \in Rows
  BY EmptyIs
<1>4. CASE x < COLS
  <2>1. cursor_x' = x /\ cursor_y' = cursor_y /\ gone' = gone /\ Draws(image)
    BY <1>4 DEF Advance
  <2>2. mode' = mode /\ InBounds' /\ Pitch' = Pitch /\ Target' = image
    BY <1>1, <2>1, DrawsKeep
  <2>3. cells' = G /\ EmptyRow' = EmptyRow /\ Rows' = Rows /\ COLS' = COLS /\ ROWS' = ROWS
    BY <2>2, CellsAre, SameScreen
  <2> HIDE DEF G
  <2>4. BelowInv'
    BY <2>1, <2>3 DEF BelowInv, G
  <2>5. PageNow' = gone \o SubSeq(G, 1, k)
    BY <2>1, <2>3 DEF PageNow
  <2>6. ScreenInv'
    BY <1>1, <1>4, <2>1, <2>2, <2>3 DEF ScreenInv
  <2> QED BY <1>4, <2>1, <2>2, <2>3, <2>4, <2>5, <2>6 DEF Grown, Wrapped, G
<1>5. CASE ~ (x < COLS) /\ cursor_y + 1 < ROWS
  <2>1. cursor_x' = 0 /\ cursor_y' = cursor_y + 1 /\ gone' = gone /\ Draws(image)
    BY <1>5 DEF Advance
  <2>2. mode' = mode /\ InBounds' /\ Pitch' = Pitch /\ Target' = image
    BY <1>1, <2>1, DrawsKeep
  <2>3. cells' = G /\ EmptyRow' = EmptyRow /\ Rows' = Rows /\ COLS' = COLS /\ ROWS' = ROWS
    BY <2>2, CellsAre, SameScreen
  <2>4. \A r \in k + 1 .. ROWS : G[r] = EmptyRow
    BY <1>1
  <2> HIDE DEF G
  <2>5. BelowInv'
    <3>1. cursor_y' + 2 .. ROWS \subseteq k + 1 .. ROWS
      BY <1>1, <2>1
    <3> QED BY <2>3, <2>4, <3>1 DEF BelowInv
  <2>6. PageNow' = Append(gone \o SubSeq(G, 1, k), EmptyRow)
    <3>1. k \in 0 .. Len(G) - 1 /\ k + 1 \in k + 1 .. ROWS
      BY <1>1, <1>2, <1>5
    <3>2. gone \o SubSeq(G, 1, k + 1) = Append(gone \o SubSeq(G, 1, k), G[k + 1])
      BY <1>1, <1>2, <3>1, PageGrows
    <3>3. PageNow' = gone \o SubSeq(G, 1, k + 1)
      BY <2>1, <2>3 DEF PageNow
    <3>4. G[k + 1] = EmptyRow
      BY <2>4, <3>1
    <3> HIDE DEF k
    <3> QED BY <3>2, <3>3, <3>4
  <2>7. ScreenInv'
    BY <1>1, <1>5, <2>1, <2>2, <2>3 DEF ScreenInv
  <2> QED BY <1>5, <2>1, <2>2, <2>5, <2>6, <2>7 DEF Grown, Wrapped, G
<1>6. CASE ~ (x < COLS) /\ ~ (cursor_y + 1 < ROWS)
  <2> DEFINE H == Grid(Scrolled(image), Pitch)
  <2>1. cursor_x' = 0 /\ cursor_y' = cursor_y /\ gone' = Append(gone, Row(image, Pitch, 0)) /\ Draws(Scrolled(image))
    BY <1>6 DEF Advance
  <2>2. Fits(Scrolled(image)) /\ H = [r \in 1 .. ROWS |-> IF r = ROWS THEN EmptyRow ELSE G[r + 1]]
    BY <1>1, ScrolledIs, ScrolledGrid
  <2>3. mode' = mode /\ InBounds' /\ Pitch' = Pitch /\ Target' = Scrolled(image)
    BY <1>1, <2>1, <2>2, DrawsKeep
  <2>4. cells' = H /\ EmptyRow' = EmptyRow /\ Rows' = Rows /\ COLS' = COLS /\ ROWS' = ROWS
    BY <2>3, CellsAre, SameScreen
  <2>5. H \in Seq(Rows) /\ Len(H) = ROWS
    BY <1>1, GridIs
  <2>6. \A r \in 1 .. ROWS : H[r] = IF r = ROWS THEN EmptyRow ELSE G[r + 1]
    BY <2>2
  <2> HIDE DEF G, H
  <2>7. k = ROWS
    BY <1>1, <1>6
  <2>8. BelowInv'
    <3>1. cursor_y' + 2 .. ROWS = {}
      BY <1>1, <2>1, <2>7
    <3> QED BY <2>4, <3>1 DEF BelowInv
  <2>9. gone' = Append(gone, G[1])
    BY <1>2, <2>1
  <2>10. PageNow' = Append(gone \o SubSeq(G, 1, k), EmptyRow)
    <3>1. Append(gone, G[1]) \o SubSeq(H, 1, Len(G)) = Append(gone \o SubSeq(G, 1, Len(G)), EmptyRow)
      <4>1. Len(G) # 0 /\ Len(H) = Len(G) /\ \A r \in 1 .. Len(G) : H[r] = IF r = Len(G) THEN EmptyRow ELSE G[r + 1]
        BY <1>1, <1>2, <2>5, <2>6
      <4> HIDE DEF Rows
      <4>2. gone \in Seq(Rows) /\ G \in Seq(Rows) /\ H \in Seq(Rows) /\ EmptyRow \in Rows
        BY <1>1, <1>2, <1>3, <2>5
      <4> QED BY <4>1, <4>2, PageScrolls, Zenon
    <3>2. PageNow' = gone' \o SubSeq(H, 1, k)
      BY <2>1, <2>4 DEF PageNow
    <3> HIDE DEF k
    <3> QED BY <1>2, <2>7, <2>9, <3>1, <3>2
  <2>11. ScreenInv'
    <3>1. gone' \in Seq(Rows)
      BY <1>1, <1>2, <2>9, AppendProperties
    <3> HIDE DEF Rows
    <3> QED BY <1>1, <2>1, <2>3, <2>4, <3>1 DEF ScreenInv
  <2> QED BY <1>6, <2>1, <2>3, <2>8, <2>10, <2>11 DEF Grown, Wrapped, G
<1> QED BY <1>4, <1>5, <1>6

(* The character that is drawn, on the page.                                *)
DrawnPage(x, ch) == [PageNow EXCEPT ![Len(PageNow)] = [@ EXCEPT ![x + 1] = ch]]

LEMMA DrawnPageIs ==
    ASSUME ScreenInv, BelowInv, NEW x \in 0 .. COLS - 1, NEW ch \in DOMAIN Font
    PROVE  /\ Fits(Drawn(x, ch))
           /\ gone \o SubSeq(Grid(Drawn(x, ch), Pitch), 1, cursor_y + 1) = DrawnPage(x, ch)
           /\ \A r \in cursor_y + 2 .. ROWS : Grid(Drawn(x, ch), Pitch)[r] = EmptyRow
<1> DEFINE k == cursor_y + 1
           row == [cells[k] EXCEPT ![x + 1] = ch]
<1>1. /\ mode \in Modes /\ InBounds /\ cursor_x \in 0 .. COLS - 1 /\ cursor_y \in 0 .. ROWS - 1 /\ gone \in Seq(Rows)
      /\ COLS \in Nat \ {0} /\ ROWS \in Nat \ {0} /\ Fits(Target)
  BY ModeIs, BoundsFit DEF ScreenInv
<1>2. Fits(Drawn(x, ch)) /\ Grid(Drawn(x, ch), Pitch) = [cells EXCEPT ![k] = row]
  BY <1>1, DrawnIs, DrawnGrid
<1>3. cells \in Seq(Rows) /\ Len(cells) = ROWS /\ DOMAIN cells = 1 .. ROWS /\ \A r \in 1 .. ROWS : cells[r] \in Rows
  BY <1>1, GridIs DEF cells
<1>4. k \in 1 .. Len(cells)
  BY <1>1, <1>3
<1>5. row \in Rows
  BY <1>3, <1>4 DEF Rows, Shown
<1> HIDE DEF Rows, row
<1> DEFINE H == [cells EXCEPT ![k] = row]
           a == [PageNow EXCEPT ![Len(PageNow)] = row]
<1>6. PageNow \in Seq(Rows) /\ PageNow = gone \o SubSeq(cells, 1, k) /\ Len(PageNow) \in 1 .. Len(PageNow)
  <2>1. PageNow = gone \o SubSeq(cells, 1, k) /\ k \in 0 .. Len(cells) /\ Len(gone) \in Nat
    BY <1>1, <1>4, LenProperties DEF PageNow
  <2>2. PageNow \in Seq(Rows) /\ Len(PageNow) = Len(gone) + k
    BY <1>1, <1>3, <2>1, PageIs
  <2> QED BY <1>1, <2>1, <2>2
<1>7. gone \o SubSeq(H, 1, k) = a /\ PageNow[Len(PageNow)] = cells[k]
  <2>1. H \in Seq(Rows) /\ Len(H) = Len(cells) /\ \A i \in 1 .. Len(cells) : H[i] = IF i = k THEN row ELSE cells[i]
    BY <1>3, <1>4, <1>5, ExceptSeq
  <2>2. a \in Seq(Rows) /\ Len(a) = Len(PageNow) /\ \A i \in 1 .. Len(PageNow) : a[i] = IF i = Len(PageNow) THEN row ELSE PageNow[i]
    <3>1. PageNow \in Seq(Rows) /\ Len(PageNow) \in 1 .. Len(PageNow) /\ row \in Rows
      BY <1>5, <1>6
    <3> QED BY <3>1, ExceptSeq
  <2>3. Differs(H, cells, k, row) /\ Differs(a, PageNow, Len(PageNow), row)
    BY <2>1, <2>2 DEF Differs
  <2> HIDE DEF H, a, k
  <2>4. Differs(a, gone \o SubSeq(cells, 1, k), Len(gone \o SubSeq(cells, 1, k)), row)
    BY <1>6, <2>3
  <2>5. /\ (gone \o SubSeq(cells, 1, k))[Len(gone \o SubSeq(cells, 1, k))] = cells[k]
        /\ gone \o SubSeq(H, 1, k) = a
    <3>1. /\ gone \in Seq(Rows) /\ cells \in Seq(Rows) /\ k \in 1 .. Len(cells) /\ row \in Rows
          /\ H \in Seq(Rows) /\ a \in Seq(Rows)
      BY <1>1, <1>3, <1>4, <1>5, <2>1, <2>2
    <3> QED BY <2>3, <2>4, <3>1, PageDrawn
  <2> QED BY <1>6, <2>5
<1>11. a = DrawnPage(x, ch)
  BY <1>7 DEF DrawnPage, row
<1>8. \A r \in k + 1 .. ROWS : [cells EXCEPT ![k] = row][r] = cells[r]
  BY <1>1, <1>3
<1>9. \A r \in cursor_y + 2 .. ROWS : r \in k + 1 .. ROWS
  BY <1>1
<1>10. \A r \in cursor_y + 2 .. ROWS : [cells EXCEPT ![k] = row][r] = EmptyRow
  BY <1>8, <1>9 DEF BelowInv
<1> QED BY <1>2, <1>7, <1>10, <1>11

(* A step that leaves the buffers leaves what they show.                    *)
LEMMA SameFrame ==
    ASSUME UNCHANGED frame
    PROVE  /\ mode' = mode /\ Pitch' = Pitch /\ Target' = Target /\ cells' = cells /\ shown' = shown
           /\ InBounds' = InBounds /\ Rows' = Rows /\ EmptyRow' = EmptyRow /\ COLS' = COLS /\ ROWS' = ROWS
<1>1. mode' = mode /\ back' = back /\ front' = front
  BY DEF frame
<1>2. COLS' = COLS /\ ROWS' = ROWS
  BY <1>1, SameScreen
<1>3. Pitch' = Pitch /\ Target' = Target /\ InBounds' = InBounds
  BY <1>1 DEF Pitch, Target, Double, NoBuffer, InBounds
<1>4. cells' = cells /\ Rows' = Rows /\ EmptyRow' = EmptyRow
  BY <1>1, <1>2, <1>3 DEF cells, Grid, Row, Char, Rows, EmptyRow
<1>5. shown' = shown
  BY <1>1, <1>2 DEF shown, Grid, Row, Char
<1> QED BY <1>1, <1>2, <1>3, <1>4, <1>5

LEMMA SameRows ==
    ASSUME ScreenInv, UNCHANGED <<frame, cursor_y, gone>>
    PROVE  /\ cursor_x' \in 0 .. COLS - 1 => ScreenInv'
           /\ BelowInv => BelowInv'
           /\ PageNow' = PageNow /\ mode' = mode /\ cells' = cells /\ shown' = shown /\ cursor_y' = cursor_y
<1>1. cursor_y' = cursor_y /\ gone' = gone
  OBVIOUS
<1>2. /\ mode' = mode /\ cells' = cells /\ shown' = shown
      /\ InBounds' = InBounds /\ Rows' = Rows /\ EmptyRow' = EmptyRow /\ COLS' = COLS /\ ROWS' = ROWS
  BY SameFrame
<1> QED BY <1>1, <1>2 DEF ScreenInv, BelowInv, PageNow

Moves(pg, col) == PageNow' = Grown(pg, col) /\ cursor_x' = Wrapped(col)

(* A character that is printed moves the page and the cursor.               *)
LEMMA PutcIs ==
    ASSUME ScreenInv, BelowInv, NEW ch \in Chars, console_putc(ch)
    PROVE  /\ ScreenInv' /\ BelowInv' /\ mode' = mode
           /\ \/ ch \in Glyphs /\ Moves(DrawnPage(cursor_x, ch), cursor_x + 1)
              \/ Moves(PageNow, COLS)
              \/ Moves(PageNow, 0)
              \/ Moves(PageNow, (cursor_x \div 4 + 1) * 4)
              \/ cursor_x > 0 /\ Moves(PageNow, cursor_x - 1)
              \/ PageNow' = PageNow /\ cursor_x' = cursor_x
           /\ ch \notin {"NL", "CR", "TAB", "BS"} =>
                /\ cursor_x' = Wrapped(cursor_x + 1)
                /\ cursor_x + 1 < COLS => cursor_y' = cursor_y /\ cells' = Grid(Drawn(cursor_x, ch), Pitch)
<1>1. /\ mode \in Modes /\ cursor_x \in 0 .. COLS - 1 /\ COLS \in Nat \ {0} /\ cursor_x \in Nat
      /\ Fits(Target) /\ InBounds
  BY ModeIs, BoundsFit DEF ScreenInv
<1>2. ASSUME NEW x \in Nat, Advance(Target, x)
      PROVE  ScreenInv' /\ BelowInv' /\ mode' = mode /\ Moves(PageNow, x)
  <2>1. \A r \in cursor_y + 2 .. ROWS : Grid(Target, Pitch)[r] = EmptyRow
    BY DEF BelowInv, cells
  <2>2. /\ ScreenInv' /\ BelowInv' /\ mode' = mode /\ cursor_x' = Wrapped(x)
        /\ PageNow' = Grown(gone \o SubSeq(Grid(Target, Pitch), 1, cursor_y + 1), x)
    BY <1>1, <1>2, <2>1, AdvanceIs
  <2> QED BY <2>2 DEF Moves, PageNow, cells
<1>3. CASE ch = "NL"
  <2>1. Advance(Target, COLS)
    BY <1>3 DEF console_putc
  <2> QED BY <1>1, <1>2, <1>3, <2>1
<1>4. CASE ch = "CR"
  <2>1. Advance(Target, 0)
    BY <1>4 DEF console_putc
  <2> QED BY <1>1, <1>2, <1>4, <2>1
<1>5. CASE ch = "TAB"
  <2>1. Advance(Target, ((cursor_x + 4) \div 4) * 4)
    BY <1>5 DEF console_putc
  <2>2. (cursor_x + 4) \div 4 = cursor_x \div 4 + 1 /\ (cursor_x \div 4 + 1) * 4 \in Nat
    BY <1>1
  <2> QED BY <1>1, <1>2, <1>5, <2>1, <2>2
<1>6. CASE ch = "BS"
  <2>1. /\ IF cursor_x > 0 THEN cursor_x' = cursor_x - 1 ELSE UNCHANGED cursor_x
        /\ UNCHANGED <<frame, cursor_y, gone>>
    BY <1>6 DEF console_putc
  <2>2. cursor_x' \in 0 .. COLS - 1
    BY <1>1, <2>1
  <2>3. ScreenInv' /\ BelowInv' /\ mode' = mode /\ PageNow' = PageNow
    BY <2>1, <2>2, SameRows
  <2>4. cursor_x > 0 => Moves(PageNow, cursor_x - 1)
    BY <1>1, <2>1, <2>3 DEF Moves, Grown, Wrapped
  <2> QED BY <1>1, <1>6, <2>1, <2>3, <2>4
<1>7. CASE ch \notin {"NL", "CR", "TAB", "BS"}
  <2>1. Advance(Drawn(cursor_x, ch), cursor_x + 1)
    BY <1>7 DEF console_putc
  <2>2. ch \in Glyphs /\ ch \in DOMAIN Font
    BY <1>7, ConsoleAssumption DEF Chars
  <2>3. /\ Fits(Drawn(cursor_x, ch))
        /\ gone \o SubSeq(Grid(Drawn(cursor_x, ch), Pitch), 1, cursor_y + 1) = DrawnPage(cursor_x, ch)
        /\ \A r \in cursor_y + 2 .. ROWS : Grid(Drawn(cursor_x, ch), Pitch)[r] = EmptyRow
    BY <1>1, <2>2, DrawnPageIs
  <2>4. cursor_x + 1 \in Nat
    BY <1>1
  <2>5. /\ ScreenInv' /\ BelowInv' /\ mode' = mode /\ cursor_x' = Wrapped(cursor_x + 1)
        /\ PageNow' = Grown(gone \o SubSeq(Grid(Drawn(cursor_x, ch), Pitch), 1, cursor_y + 1), cursor_x + 1)
        /\ cursor_x + 1 < COLS => cursor_y' = cursor_y /\ cells' = Grid(Drawn(cursor_x, ch), Pitch)
    BY <2>1, <2>3, <2>4, AdvanceIs
  <2> QED BY <1>7, <2>2, <2>3, <2>5 DEF Moves
<1> QED BY <1>3, <1>4, <1>5, <1>6, <1>7

(* A character that is erased, away from the start of a row.                *)
LEMMA EraseIs ==
    ASSUME ScreenInv, BelowInv, console_erase_char, cursor_x # 0
    PROVE  /\ ScreenInv' /\ BelowInv' /\ mode' = mode
           /\ cursor_x - 1 \in 0 .. COLS - 1 /\ cursor_x' = cursor_x - 1 /\ cursor_y' = cursor_y
           /\ PageNow' = DrawnPage(cursor_x - 1, Blank)
           /\ cells' = Grid(Drawn(cursor_x - 1, Blank), Pitch) /\ shown' = cells'
<1> DEFINE x == cursor_x - 1
           image == Drawn(x, Blank)
<1>1. /\ mode \in Modes /\ cursor_x \in 0 .. COLS - 1 /\ COLS \in Nat \ {0} /\ InBounds /\ cursor_y \in 0 .. ROWS - 1 /\ gone \in Seq(Rows)
  BY ModeIs DEF ScreenInv
<1>2. x \in 0 .. COLS - 1 /\ Blank \in DOMAIN Font
  BY <1>1, FontIs
<1>3. Shows(image) /\ cursor_x' = x /\ cursor_y' = cursor_y /\ gone' = gone
  BY DEF console_erase_char
<1> HIDE DEF x
<1>4. /\ Fits(image) /\ gone \o SubSeq(Grid(image, Pitch), 1, cursor_y + 1) = DrawnPage(x, Blank)
      /\ \A r \in cursor_y + 2 .. ROWS : Grid(image, Pitch)[r] = EmptyRow
  BY <1>2, DrawnPageIs
<1> HIDE DEF image
<1>5. mode' = mode /\ InBounds' /\ Pitch' = Pitch /\ Target' = image /\ front' = Copy(image)
  BY <1>1, <1>3, <1>4, ShowsKeep
<1>6. cells' = Grid(image, Pitch) /\ EmptyRow' = EmptyRow /\ Rows' = Rows /\ COLS' = COLS /\ ROWS' = ROWS
  BY <1>5, CellsAre, SameScreen
<1>7. shown' = cells'
  BY <1>1, <1>4, <1>5, ShownAre
<1>8. PageNow' = DrawnPage(x, Blank)
  BY <1>3, <1>4, <1>6 DEF PageNow
<1>9. BelowInv'
  BY <1>3, <1>4, <1>6 DEF BelowInv
<1>10. ScreenInv'
  BY <1>1, <1>2, <1>3, <1>5, <1>6 DEF ScreenInv
<1> QED BY <1>2, <1>3, <1>5, <1>6, <1>7, <1>8, <1>9, <1>10 DEF x, image

(* console_clear starts the page again.                                     *)
LEMMA ClearIs ==
    ASSUME mode \in Modes, InBounds, console_clear
    PROVE  ScreenInv' /\ BelowInv' /\ mode' = mode /\ cursor_x' = 0 /\ cursor_y' = 0 /\ PageNow' = <<EmptyRow>>
<1> DEFINE image == Cleared(Black)
<1>1. Fits(image) /\ Grid(image, Pitch) = [r \in 1 .. ROWS |-> EmptyRow] /\ COLS \in Nat \ {0} /\ ROWS \in Nat \ {0}
  BY BoundsFit, ClearedIs, ClearedGrid, ModeIs
<1>2. Shows(image) /\ cursor_x' = 0 /\ cursor_y' = 0 /\ gone' = <<>>
  BY DEF console_clear
<1> HIDE DEF image
<1>3. mode' = mode /\ InBounds' /\ Pitch' = Pitch /\ Target' = image
  BY <1>1, <1>2, ShowsKeep
<1>4. cells' = Grid(image, Pitch) /\ EmptyRow' = EmptyRow /\ Rows' = Rows /\ COLS' = COLS /\ ROWS' = ROWS
  BY <1>3, CellsAre, SameScreen
<1>5. ScreenInv'
  <2>1. gone' \in Seq(Rows)
    BY <1>2
  <2> HIDE DEF Rows
  <2> QED BY <1>1, <1>2, <1>3, <1>4, <2>1 DEF ScreenInv
<1>6. BelowInv'
  <2>1. \A r \in 1 .. ROWS : cells'[r] = EmptyRow
    BY <1>1, <1>4
  <2>2. cursor_y' + 2 .. ROWS \subseteq 1 .. ROWS
    BY <1>1, <1>2
  <2> QED BY <1>4, <2>1, <2>2 DEF BelowInv
<1>7. PageNow' = <<EmptyRow>>
  <2> DEFINE G == Grid(image, Pitch)
             p == <<>> \o SubSeq(G, 1, 1)
  <2>1. G \in Seq(Rows) /\ Len(G) = ROWS /\ G[1] = EmptyRow
    BY <1>1, GridIs
  <2>2. PageNow' = p
    BY <1>2, <1>4 DEF PageNow
  <2> HIDE DEF G
  <2>3. <<>> \in Seq(Rows) /\ Len(<<>>) = 0 /\ 1 \in 0 .. Len(G)
    BY <1>1, <2>1
  <2>4. p \in Seq(Rows) /\ Len(p) = 0 + 1 /\ \A i \in 1 .. 0 + 1 : p[i] = IF i <= 0 THEN <<>>[i] ELSE G[i - 0]
    BY <2>1, <2>3, PageIs
  <2> HIDE DEF p
  <2>5. <<EmptyRow>> \in Seq(Rows) /\ Len(<<EmptyRow>>) = 1 /\ <<EmptyRow>>[1] = EmptyRow
    BY EmptyIs
  <2>6. Len(p) = 1 /\ p[1] = EmptyRow
    BY <2>1, <2>4
  <2>7. \A i \in 1 .. Len(p) : p[i] = <<EmptyRow>>[i]
    BY <2>5, <2>6
  <2>8. p = <<EmptyRow>>
    BY <2>4, <2>5, <2>6, <2>7, SeqEqual
  <2> QED BY <2>2, <2>8
<1> QED BY <1>2, <1>3, <1>5, <1>6, <1>7

Phases == {"tests", "print", "read", "echo", "run"}

ConsoleInv ==
    /\ ScreenInv
    /\ text \in Seq(Chars) /\ line \in Seq(Glyphs) /\ phase \in Phases
    /\ phase = "tests" => cursor_x = 0
    /\ phase # "tests" => BelowInv
    /\ phase \in {"read", "echo"} => EchoMatchesLine
    /\ phase = "read" => shown = cells

PageStep == Pages!Next \/ UNCHANGED <<Written, cursor_x>>

(* The power-on state.                                                      *)
LEMMA ConsoleStart == ConsoleInit => ConsoleInv /\ Pages!Init
<1> SUFFICES ASSUME ConsoleInit PROVE ConsoleInv /\ Pages!Init
  OBVIOUS
<1> USE DEF ConsoleInit, FbInit
<1>1. /\ mode \in Modes /\ COLS \in Nat \ {0} /\ ROWS \in Nat \ {0}
      /\ mode.height \in Nat \ {0} /\ mode.width \in Nat \ {0} /\ mode.pitch \in Nat \ {0}
  BY ModeIs
<1>2. InBounds
  <2>1. front = [a \in 0 .. mode.pitch * mode.height - 1 |-> Black]
    OBVIOUS
  <2>2. Double => back = [a \in 0 .. mode.width * mode.height - 1 |-> Black]
    BY DEF Double
  <2> QED BY <2>1, <2>2 DEF InBounds
<1>3. gone \in Seq(Rows) /\ text \in Seq(Chars) /\ line \in Seq(Glyphs)
  OBVIOUS
<1>4. ConsoleInv
  <2> HIDE DEF Rows
  <2> QED BY <1>1, <1>2, <1>3 DEF ConsoleInv, ScreenInv, Phases
<1>5. Written = <<EmptyRow>>
  BY DEF Written
<1>6. Len(EmptyRow) = COLS
  BY <1>1 DEF EmptyRow
<1>7. Pages!Width = COLS /\ Pages!Empty = EmptyRow
  <2>1. Written[1] = EmptyRow
    BY <1>5
  <2>2. Pages!Width = COLS
    BY <1>6, <2>1 DEF Pages!Width
  <2> QED BY <2>2 DEF Pages!Empty, EmptyRow
<1>8. Len(<<EmptyRow>>) = 1
  OBVIOUS
<1> QED BY <1>4, <1>5, <1>7, <1>8 DEF Pages!Init

(* The page while the shell runs.                                           *)
LEMMA PageNowIs ==
    ASSUME ScreenInv
    PROVE  PageNow \in Seq(Rows) /\ Len(PageNow) \in Nat \ {0} /\ Len(PageNow[1]) = COLS
<1>1. /\ mode \in Modes /\ cursor_y \in 0 .. ROWS - 1 /\ gone \in Seq(Rows) /\ COLS \in Nat \ {0} /\ ROWS \in Nat \ {0}
  BY ModeIs DEF ScreenInv
<1>2. cells \in Seq(Rows) /\ Len(cells) = ROWS
  BY <1>1, GridIs DEF cells
<1>3. cursor_y + 1 \in 0 .. Len(cells) /\ Len(gone) \in Nat
  BY <1>1, <1>2, LenProperties
<1>4. PageNow \in Seq(Rows) /\ Len(PageNow) = Len(gone) + (cursor_y + 1)
  BY <1>1, <1>2, <1>3, PageIs DEF PageNow
<1>5. Len(PageNow) \in Nat \ {0} /\ PageNow[1] \in Rows
  <2>1. Len(PageNow) \in Nat \ {0}
    BY <1>1, <1>3, <1>4
  <2> QED BY <1>4, <2>1, ElementOfSeq
<1>6. \A r \in Rows : Len(r) = COLS
  BY <1>1 DEF Rows
<1> QED BY <1>4, <1>5, <1>6

LEMMA PageWidth ==
    ASSUME ScreenInv, phase # "tests"
    PROVE  Written = PageNow /\ Pages!Width = COLS /\ Pages!Empty = EmptyRow /\ Pages!Row = Len(PageNow)
<1>1. Written = PageNow
  BY DEF Written, PageNow
<1>2. Pages!Width = COLS
  BY <1>1, PageNowIs DEF Pages!Width
<1> QED BY <1>1, <1>2 DEF Pages!Empty, EmptyRow, Pages!Row

(* What moves the page on the screen moves it on paper.                     *)
LEMMA MovesTo ==
    ASSUME ScreenInv, phase # "tests", phase' # "tests", NEW pg, NEW col, Moves(pg, col)
    PROVE  Pages!MoveTo(pg, col)
<1>1. Written' = PageNow'
  BY DEF Written, PageNow
<1>2. Pages!Width = COLS /\ Pages!Empty = EmptyRow
  BY PageWidth
<1> QED BY <1>1, <1>2 DEF Moves, Grown, Wrapped, Pages!MoveTo

(* console_putc is a step of the page; so is console_clear.                 *)
LEMMA PutcSteps ==
    ASSUME ScreenInv, BelowInv, phase # "tests", phase' # "tests", NEW ch \in Chars, console_putc(ch)
    PROVE  PageStep
<1>1. Written = PageNow /\ Written' = PageNow' /\ Pages!Width = COLS /\ Pages!Row = Len(PageNow)
  BY PageWidth DEF Written, PageNow
<1>2. CASE ch \in Glyphs /\ Moves(DrawnPage(cursor_x, ch), cursor_x + 1)
  <2>1. Pages!MoveTo(DrawnPage(cursor_x, ch), cursor_x + 1)
    BY <1>2, MovesTo
  <2>2. DrawnPage(cursor_x, ch) = Pages!Draw(ch)
    BY <1>1 DEF DrawnPage, Pages!Draw
  <2> QED BY <1>2, <2>1, <2>2 DEF PageStep, Pages!Next, Pages!Write
<1>3. CASE Moves(PageNow, COLS)
  <2>1. Pages!MoveTo(PageNow, COLS)
    BY <1>3, MovesTo
  <2> QED BY <1>1, <2>1 DEF PageStep, Pages!Next, Pages!Newline
<1>4. CASE Moves(PageNow, 0)
  <2>1. Pages!MoveTo(PageNow, 0)
    BY <1>4, MovesTo
  <2> QED BY <1>1, <2>1 DEF PageStep, Pages!Next, Pages!Return
<1>5. CASE Moves(PageNow, (cursor_x \div 4 + 1) * 4)
  <2>1. Pages!MoveTo(PageNow, (cursor_x \div 4 + 1) * 4)
    BY <1>5, MovesTo
  <2> QED BY <1>1, <2>1 DEF PageStep, Pages!Next, Pages!Tab
<1>6. CASE cursor_x > 0 /\ Moves(PageNow, cursor_x - 1)
  <2>1. Pages!MoveTo(PageNow, cursor_x - 1)
    BY <1>6, MovesTo
  <2> QED BY <1>1, <1>6, <2>1 DEF PageStep, Pages!Next, Pages!Back
<1>7. CASE PageNow' = PageNow /\ cursor_x' = cursor_x
  BY <1>1, <1>7 DEF PageStep
<1> QED BY <1>2, <1>3, <1>4, <1>5, <1>6, <1>7, PutcIs

LEMMA ClearSteps ==
    ASSUME ConsoleInv, phase' # "tests", console_clear
    PROVE  PageStep /\ ScreenInv' /\ BelowInv' /\ mode' = mode
<1>1. mode \in Modes /\ InBounds /\ ScreenInv
  BY DEF ConsoleInv, ScreenInv
<1>2. ScreenInv' /\ BelowInv' /\ mode' = mode /\ cursor_x' = 0 /\ PageNow' = <<EmptyRow>>
  BY <1>1, ClearIs
<1>3. Written' = <<EmptyRow>>
  BY <1>2 DEF Written, PageNow
<1>4. CASE phase = "tests"
  <2>1. Written = <<EmptyRow>> /\ cursor_x = 0
    BY <1>4 DEF Written, ConsoleInv
  <2> QED BY <1>2, <1>3, <2>1 DEF PageStep
<1>5. CASE phase # "tests"
  <2>1. Pages!Empty = EmptyRow
    BY <1>1, <1>5, PageWidth
  <2> QED BY <1>2, <1>3, <2>1 DEF PageStep, Pages!Next, Pages!Clear
<1> QED BY <1>2, <1>4, <1>5

(* The screen as it is presented.                                           *)
LEMMA PresentSteps ==
    ASSUME ScreenInv, fb_present, UNCHANGED <<cursor, gone>>
    PROVE  /\ ScreenInv' /\ (BelowInv => BelowInv') /\ cells' = cells /\ shown' = cells' /\ PageNow' = PageNow
           /\ cursor_x' = cursor_x /\ cursor_y' = cursor_y
<1>1. cursor_x' = cursor_x /\ cursor_y' = cursor_y /\ gone' = gone
  BY DEF cursor
<1>2. mode \in Modes /\ InBounds /\ Fits(Target)
  BY BoundsFit DEF ScreenInv
<1>3. mode' = mode /\ InBounds' /\ Pitch' = Pitch /\ Target' = Target /\ front' = Copy(Target)
  BY <1>2, PresentKeeps
<1>4. cells' = cells /\ EmptyRow' = EmptyRow /\ Rows' = Rows /\ COLS' = COLS /\ ROWS' = ROWS
  BY <1>3, CellsAre, SameScreen DEF cells
<1>5. shown' = cells'
  BY <1>2, <1>3, ShownAre
<1> QED BY <1>1, <1>2, <1>3, <1>4, <1>5 DEF ScreenInv, BelowInv, PageNow

(* One lemma for each step of the shell and the tests.                      *)
LEMMA TestStep == ASSUME ConsoleInv, TestDraws PROVE ConsoleInv' /\ PageStep
<1> USE DEF ConsoleInv
<1>1. /\ ScreenInv /\ mode \in Modes /\ InBounds /\ Fits(Target)
  BY BoundsFit DEF ScreenInv
<1>2. /\ phase = "tests" /\ cursor_x' = cursor_x /\ cursor_y' = cursor_y /\ gone' = gone
      /\ text' = text /\ line' = line /\ phase' = phase /\ cursor_x = 0
  BY DEF TestDraws, cursor
<1>3. mode' = mode /\ InBounds'
  <2>1. CASE fb_present
    BY <1>1, <2>1, PresentKeeps
  <2>2. CASE \E c \in Colors : fb_clear(c)
    <3>1. PICK c \in Colors : Draws(Cleared(c))
      BY <2>2 DEF fb_clear
    <3>2. Fits(Cleared(c))
      BY <1>1, ClearedIs
    <3> QED BY <1>1, <3>1, <3>2, DrawsKeep
  <2>3. CASE \E c \in Colors : \E r \in Rects : fb_fill_rect(r.x, r.y, r.w, r.h, c)
    <3>1. PICK c \in Colors, r \in Rects : fb_fill_rect(r.x, r.y, r.w, r.h, c)
      BY <2>3
    <3>2. UNCHANGED frame \/ \E image : Fits(image) /\ Draws(image)
      BY <1>1, <3>1, FillFits
    <3>3. CASE UNCHANGED frame
      BY <1>1, <3>3, SameFrame
    <3>4. CASE \E image : Fits(image) /\ Draws(image)
      BY <1>1, <3>4, DrawsKeep
    <3> QED BY <3>2, <3>3, <3>4
  <2> QED BY <2>1, <2>2, <2>3 DEF TestDraws
<1>4. Rows' = Rows /\ EmptyRow' = EmptyRow /\ COLS' = COLS /\ ROWS' = ROWS
  BY <1>3, SameScreen DEF Rows, EmptyRow
<1>5. ScreenInv'
  BY <1>1, <1>2, <1>3, <1>4 DEF ScreenInv
<1>6. PageStep
  BY <1>2, <1>4 DEF PageStep, Written
<1> QED BY <1>2, <1>5, <1>6 DEF Phases

LEMMA BannerStep == ASSUME ConsoleInv, Banner PROVE ConsoleInv' /\ PageStep
<1>1. console_clear /\ phase' = "print" /\ text' = Prompt /\ line' = line
  BY DEF Banner
<1>2. PageStep /\ ScreenInv' /\ BelowInv'
  BY <1>1, ClearSteps
<1> QED BY <1>1, <1>2, ConsoleAssumption DEF ConsoleInv, Phases

LEMMA PutsStep == ASSUME ConsoleInv, Puts PROVE ConsoleInv' /\ PageStep
<1>1. phase = "print" /\ text # <<>> /\ console_putc(Head(text)) /\ text' = Tail(text) /\ line' = line /\ phase' = phase
  BY DEF Puts
<1>2. ScreenInv /\ BelowInv /\ Head(text) \in Chars /\ text' \in Seq(Chars)
  <2> HIDE DEF Chars
  <2> QED BY <1>1 DEF ConsoleInv
<1>3. ScreenInv' /\ BelowInv'
  BY <1>1, <1>2, PutcIs
<1>4. PageStep
  BY <1>1, <1>2, PutcSteps
<1> QED BY <1>1, <1>2, <1>3, <1>4 DEF ConsoleInv

LEMMA PrintedStep == ASSUME ConsoleInv, Printed PROVE ConsoleInv' /\ PageStep
<1>1. /\ phase = "print" /\ fb_present /\ phase' = "read" /\ line' = <<>> /\ UNCHANGED <<cursor, gone>> /\ text' = text
  BY DEF Printed
<1>2. ScreenInv /\ BelowInv
  BY <1>1 DEF ConsoleInv
<1>3. /\ ScreenInv' /\ BelowInv' /\ shown' = cells' /\ PageNow' = PageNow /\ cursor_x' = cursor_x
  BY <1>1, <1>2, PresentSteps
<1>4. EchoMatchesLine'
  BY <1>1 DEF EchoMatchesLine
<1>5. PageStep
  BY <1>1, <1>3 DEF PageStep, Written, PageNow
<1> QED BY <1>1, <1>3, <1>4, <1>5 DEF ConsoleInv, Phases

LEMMA EchoedStep == ASSUME ConsoleInv, Echoed PROVE ConsoleInv' /\ PageStep
<1>1. /\ phase = "echo" /\ fb_present /\ phase' = "read" /\ line' = line /\ UNCHANGED <<cursor, gone>> /\ text' = text
  BY DEF Echoed
<1>2. ScreenInv /\ BelowInv /\ EchoMatchesLine
  BY <1>1 DEF ConsoleInv
<1>3. /\ ScreenInv' /\ BelowInv' /\ shown' = cells' /\ cells' = cells /\ PageNow' = PageNow /\ cursor_x' = cursor_x /\ cursor_y' = cursor_y
  BY <1>1, <1>2, PresentSteps
<1>4. EchoMatchesLine'
  BY <1>1, <1>2, <1>3 DEF EchoMatchesLine
<1>5. PageStep
  BY <1>1, <1>3 DEF PageStep, Written, PageNow
<1> QED BY <1>1, <1>3, <1>4, <1>5 DEF ConsoleInv, Phases

LEMMA RunStep == ASSUME ConsoleInv, Run PROVE ConsoleInv' /\ PageStep
<1>1. /\ phase = "run" /\ fb_present /\ phase' = "print" /\ line' = line /\ UNCHANGED <<cursor, gone>>
  BY DEF Run
<1>2. text' \in Seq(Chars)
  <2>1. PICK out \in IF line = <<>> THEN {<<>>} ELSE Outputs : text' = out \o Prompt
    BY DEF Run
  <2>2. out = <<>> \/ out \in Outputs
    BY <2>1
  <2>3. Outputs \subseteq Seq(Chars) /\ Prompt \in Seq(Chars)
    BY ConsoleAssumption
  <2> HIDE DEF Chars
  <2>4. out \in Seq(Chars)
    <3>1. <<>> \in Seq(Chars)
      OBVIOUS
    <3> QED BY <2>2, <2>3, <3>1
  <2> QED BY <2>1, <2>3, <2>4
<1>3. ScreenInv /\ BelowInv
  BY <1>1 DEF ConsoleInv
<1>4. /\ ScreenInv' /\ BelowInv' /\ PageNow' = PageNow /\ cursor_x' = cursor_x
  BY <1>1, <1>3, PresentSteps
<1>5. PageStep
  BY <1>1, <1>4 DEF PageStep, Written, PageNow
<1> QED BY <1>1, <1>2, <1>4, <1>5 DEF ConsoleInv, Phases

LEMMA ClearStep == ASSUME ConsoleInv, Clear PROVE ConsoleInv' /\ PageStep
<1>1. console_clear /\ phase' = "print" /\ text' = Prompt /\ line' = line
  BY DEF Clear
<1>2. PageStep /\ ScreenInv' /\ BelowInv'
  BY <1>1, ClearSteps
<1> QED BY <1>1, <1>2, ConsoleAssumption DEF ConsoleInv, Phases

(* A key while the shell reads a line.                                      *)
LEMMA EnterStep ==
    ASSUME ConsoleInv, phase = "read", text' = <<>>, console_putc("NL"), phase' = "run", line' = line
    PROVE  ConsoleInv' /\ PageStep
<1>1. ScreenInv /\ BelowInv /\ "NL" \in Chars
  BY DEF ConsoleInv, Chars
<1>2. ScreenInv' /\ BelowInv' /\ PageStep
  BY <1>1, PutcIs, PutcSteps
<1> QED BY <1>2 DEF ConsoleInv, Phases

(* The row of the cursor, when a cell of it is drawn.                       *)
LEMMA DrawnCells ==
    ASSUME ScreenInv, NEW x \in 0 .. COLS - 1, NEW ch \in DOMAIN Font
    PROVE  /\ Grid(Drawn(x, ch), Pitch)[cursor_y + 1][x + 1] = ch
           /\ \A i \in 1 .. COLS : i # x + 1 => Grid(Drawn(x, ch), Pitch)[cursor_y + 1][i] = cells[cursor_y + 1][i]
<1> DEFINE k == cursor_y + 1
           row == [cells[k] EXCEPT ![x + 1] = ch]
<1>1. mode \in Modes /\ InBounds /\ Fits(Target) /\ cursor_y \in 0 .. ROWS - 1 /\ COLS \in Nat \ {0} /\ ROWS \in Nat \ {0}
  BY BoundsFit, ModeIs DEF ScreenInv
<1>2. Grid(Drawn(x, ch), Pitch) = [cells EXCEPT ![k] = row]
  BY <1>1, DrawnGrid
<1>3. DOMAIN cells = 1 .. ROWS /\ \A r \in 1 .. ROWS : cells[r] \in Rows
  BY <1>1, GridIs DEF cells
<1>4. k \in 1 .. ROWS
  BY <1>1
<1>5. DOMAIN cells[k] = 1 .. COLS
  BY <1>3, <1>4 DEF Rows
<1>6. [cells EXCEPT ![k] = row][k] = row
  BY <1>3, <1>4
<1>7. x + 1 \in 1 .. COLS
  BY <1>1
<1>8. row[x + 1] = ch /\ \A i \in 1 .. COLS : i # x + 1 => row[i] = cells[k][i]
  BY <1>5, <1>7
<1> QED BY <1>2, <1>6, <1>8

(* A character typed: it stands before the cursor, unless it wrapped.       *)
LEMMA TypeStep ==
    ASSUME ConsoleInv, NEW ch \in Glyphs, Type(ch)
    PROVE  ConsoleInv' /\ PageStep
<1>1. ch \notin {"NL", "CR", "TAB", "BS"} /\ ch \in DOMAIN Font /\ ch \in Chars
  BY ConsoleAssumption DEF Chars
<1>2. /\ phase = "read" /\ text' = <<>> /\ console_putc(ch) /\ line' = Append(line, ch)
      /\ phase' \in {"echo", "run"}
  BY <1>1 DEF Type
<1>3. ScreenInv /\ BelowInv /\ EchoMatchesLine /\ line \in Seq(Glyphs)
  BY <1>2 DEF ConsoleInv
<1>4. cursor_x \in 0 .. COLS - 1 /\ COLS \in Nat \ {0}
  BY <1>3, ModeIs DEF ScreenInv
<1>5. /\ ScreenInv' /\ BelowInv' /\ cursor_x' = Wrapped(cursor_x + 1)
      /\ cursor_x + 1 < COLS => cursor_y' = cursor_y /\ cells' = Grid(Drawn(cursor_x, ch), Pitch)
  BY <1>1, <1>2, <1>3, PutcIs
<1>6. PageStep
  BY <1>1, <1>2, <1>3, PutcSteps
<1>7. line' \in Seq(Glyphs) /\ Len(line') = Len(line) + 1 /\ Len(line) \in Nat
      /\ line'[Len(line) + 1] = ch /\ \A i \in 1 .. Len(line) : line'[i] = line[i]
  BY <1>2, <1>3, AppendProperties
<1>8. EchoMatchesLine'
  <2> SUFFICES ASSUME NEW i \in 1 .. Len(line'), i <= cursor_x'
               PROVE  cells'[cursor_y' + 1][cursor_x' + 1 - i] = line'[Len(line') + 1 - i]
    BY DEF EchoMatchesLine
  <2>1. cursor_x + 1 < COLS /\ cursor_x' = cursor_x + 1 /\ i \in 1 .. Len(line) + 1
    BY <1>4, <1>5, <1>7 DEF Wrapped
  <2>2. cells'[cursor_y' + 1] = Grid(Drawn(cursor_x, ch), Pitch)[cursor_y + 1]
    BY <1>5, <2>1
  <2>3. CASE i = 1
    <3>1. Grid(Drawn(cursor_x, ch), Pitch)[cursor_y + 1][cursor_x + 1] = ch
      BY <1>1, <1>3, <1>4, DrawnCells
    <3>2. cursor_x' + 1 - i = cursor_x + 1 /\ Len(line') + 1 - i = Len(line) + 1
      BY <1>4, <1>7, <2>1, <2>3
    <3> QED BY <1>7, <2>2, <3>1, <3>2
  <2>4. CASE i # 1
    <3> DEFINE j == i - 1
    <3>1. /\ j \in 1 .. Len(line) /\ j <= cursor_x
          /\ cursor_x' + 1 - i = cursor_x + 1 - j /\ Len(line') + 1 - i = Len(line) + 1 - j
          /\ cursor_x + 1 - j \in 1 .. COLS /\ cursor_x + 1 - j # cursor_x + 1 /\ Len(line) + 1 - j \in 1 .. Len(line)
      BY <1>4, <1>7, <2>1, <2>4
    <3> HIDE DEF j
    <3>2. Grid(Drawn(cursor_x, ch), Pitch)[cursor_y + 1][cursor_x + 1 - j] = cells[cursor_y + 1][cursor_x + 1 - j]
      BY <1>1, <1>3, <1>4, <3>1, DrawnCells
    <3>3. cells[cursor_y + 1][cursor_x + 1 - j] = line[Len(line) + 1 - j]
      BY <1>3, <3>1 DEF EchoMatchesLine
    <3>4. line'[Len(line) + 1 - j] = line[Len(line) + 1 - j]
      BY <1>7, <3>1
    <3> QED BY <2>2, <3>1, <3>2, <3>3, <3>4
  <2> QED BY <2>3, <2>4
<1>9. text' \in Seq(Chars)
  <2> HIDE DEF Chars
  <2> QED BY <1>2
<1> QED BY <1>2, <1>5, <1>6, <1>7, <1>8, <1>9 DEF ConsoleInv, Phases

(* A sequence without its last element.                                     *)
LEMMA FrontIs ==
    ASSUME NEW S, NEW s \in Seq(S), s # <<>>
    PROVE  /\ Front(s) \in Seq(S) /\ Len(Front(s)) = Len(s) - 1 /\ Len(s) \in Nat \ {0}
           /\ \A i \in 1 .. Len(s) - 1 : Front(s)[i] = s[i]
<1>1. Len(s) \in Nat \ {0}
  BY EmptySeq, LenProperties
<1>2. Front(s) = SubSeq(s, 1, Len(s) - 1)
  BY DEF Front
<1>3. 1 \in Int /\ Len(s) - 1 \in Int /\ \A i \in 1 .. Len(s) - 1 : s[i] \in S
  BY <1>1
<1>4. /\ SubSeq(s, 1, Len(s) - 1) \in Seq(S)
      /\ Len(SubSeq(s, 1, Len(s) - 1)) = IF 1 <= Len(s) - 1 THEN Len(s) - 1 - 1 + 1 ELSE 0
      /\ \A i \in 1 .. Len(s) - 1 - 1 + 1 : SubSeq(s, 1, Len(s) - 1)[i] = s[1 + i - 1]
  BY <1>3, SubSeqProperties
<1>5. /\ Len(s) - 1 - 1 + 1 = Len(s) - 1
      /\ (IF 1 <= Len(s) - 1 THEN Len(s) - 1 - 1 + 1 ELSE 0) = Len(s) - 1
      /\ \A i \in 1 .. Len(s) - 1 : 1 + i - 1 = i
  <2> DEFINE num == Len(s)
  <2>1. num \in Nat \ {0}
    BY <1>1
  <2> HIDE DEF num
  <2>2. /\ num - 1 - 1 + 1 = num - 1
        /\ (IF 1 <= num - 1 THEN num - 1 - 1 + 1 ELSE 0) = num - 1
        /\ \A i \in 1 .. num - 1 : 1 + i - 1 = i
    BY <2>1
  <2> QED BY <2>2 DEF num
<1> DEFINE t == SubSeq(s, 1, Len(s) - 1)
<1>6. t \in Seq(S) /\ Len(t) = Len(s) - 1
  BY <1>1, <1>4, <1>5
<1>7. \A i \in 1 .. Len(s) - 1 : t[i] = s[i]
  <2> SUFFICES ASSUME NEW i \in 1 .. Len(s) - 1 PROVE t[i] = s[i]
    OBVIOUS
  <2>1. i \in 1 .. Len(s) - 1 - 1 + 1 /\ 1 + i - 1 = i
    BY <1>5
  <2>2. t[i] = s[1 + i - 1]
    BY <1>4, <2>1
  <2> QED BY <2>1, <2>2
<1> QED BY <1>1, <1>2, <1>6, <1>7

(* A backspace: the characters left stand before the cursor as before.      *)
LEMMA BackspaceStep ==
    ASSUME ConsoleInv, Type("BS")
    PROVE  ConsoleInv' /\ PageStep
<1>1. /\ phase = "read" /\ text' = <<>> /\ phase' = phase
      /\ IF line # <<>> THEN console_erase_char ELSE UNCHANGED <<frame, cursor, gone>>
      /\ line' = IF line # <<>> THEN Front(line) ELSE line
  BY DEF Type
<1>2. ScreenInv /\ BelowInv /\ EchoMatchesLine /\ line \in Seq(Glyphs) /\ shown = cells
  BY <1>1 DEF ConsoleInv
<1>3. cursor_x \in 0 .. COLS - 1 /\ COLS \in Nat \ {0}
  BY <1>2, ModeIs DEF ScreenInv
<1>4. text' \in Seq(Chars)
  <2> HIDE DEF Chars
  <2> QED BY <1>1
<1>5. Written = PageNow /\ Written' = PageNow' /\ Pages!Row = Len(PageNow)
  BY <1>1, <1>2, PageWidth DEF Written, PageNow
<1>6. ASSUME UNCHANGED <<frame, cursor, gone>>
      PROVE  /\ ScreenInv' /\ BelowInv' /\ shown' = cells' /\ cells' = cells /\ PageStep
             /\ cursor_x' = cursor_x /\ cursor_y' = cursor_y
  <2>1. cursor_x' = cursor_x /\ cursor_y' = cursor_y /\ gone' = gone
    BY <1>6 DEF cursor
  <2>2. UNCHANGED <<frame, cursor_y, gone>>
    BY <1>6, <2>1
  <2>3. ScreenInv' /\ BelowInv' /\ PageNow' = PageNow /\ cells' = cells /\ shown' = shown
    BY <1>2, <1>3, <2>1, <2>2, SameRows
  <2> QED BY <1>2, <1>5, <2>1, <2>3 DEF PageStep
<1>7. CASE line = <<>>
  <2>1. UNCHANGED <<frame, cursor, gone>> /\ line' = line
    BY <1>1, <1>7
  <2>2. EchoMatchesLine'
    BY <1>2, <1>6, <2>1 DEF EchoMatchesLine
  <2> QED BY <1>1, <1>2, <1>4, <1>6, <2>1, <2>2 DEF ConsoleInv, Phases
<1>8. CASE line # <<>>
  <2>1. /\ line' \in Seq(Glyphs) /\ Len(line') = Len(line) - 1 /\ Len(line) \in Nat \ {0}
        /\ \A i \in 1 .. Len(line) - 1 : line'[i] = line[i]
    BY <1>1, <1>2, <1>8, FrontIs
  <2>2. CASE cursor_x = 0
    <3>1. UNCHANGED <<frame, cursor, gone>>
      BY <1>1, <1>8, <2>2 DEF console_erase_char
    <3>2. EchoMatchesLine'
      BY <1>6, <2>1, <2>2, <3>1 DEF EchoMatchesLine
    <3> QED BY <1>1, <1>4, <1>6, <2>1, <3>1, <3>2 DEF ConsoleInv, Phases
  <2>3. CASE cursor_x # 0
    <3> DEFINE x == cursor_x - 1
    <3>1. /\ ScreenInv' /\ BelowInv' /\ x \in 0 .. COLS - 1 /\ cursor_x' = x /\ cursor_y' = cursor_y
          /\ PageNow' = DrawnPage(x, Blank) /\ cells' = Grid(Drawn(x, Blank), Pitch) /\ shown' = cells'
      BY <1>1, <1>2, <1>8, <2>3, EraseIs
    <3>2. PageStep
      <4>1. cursor_x > 0 /\ x + 1 = cursor_x
        BY <1>3, <2>3
      <4>2. DrawnPage(x, Blank) = [Written EXCEPT ![Pages!Row][cursor_x] = Blank]
        BY <1>5, <4>1 DEF DrawnPage
      <4>3. Pages!Erase
        BY <1>5, <3>1, <4>1, <4>2 DEF Pages!Erase
      <4> QED BY <4>3 DEF PageStep, Pages!Next
    <3>3. EchoMatchesLine'
      <4> SUFFICES ASSUME NEW i \in 1 .. Len(line'), i <= cursor_x'
                   PROVE  cells'[cursor_y' + 1][cursor_x' + 1 - i] = line'[Len(line') + 1 - i]
        BY DEF EchoMatchesLine
      <4> DEFINE j == i + 1
      <4>1. /\ j \in 1 .. Len(line) /\ j <= cursor_x
            /\ cursor_x' + 1 - i = cursor_x + 1 - j /\ Len(line') + 1 - i = Len(line) + 1 - j
            /\ cursor_x + 1 - j \in 1 .. COLS /\ cursor_x + 1 - j # x + 1 /\ Len(line) + 1 - j \in 1 .. Len(line) - 1
        <5>1. /\ cursor_x' = cursor_x - 1 /\ Len(line') = Len(line) - 1 /\ Len(line) \in Nat \ {0}
              /\ cursor_x \in 0 .. COLS - 1 /\ COLS \in Nat \ {0}
          BY <1>3, <2>1, <3>1
        <5>2. i \in Nat \ {0} /\ i <= Len(line) - 1 /\ i <= cursor_x - 1
          BY <5>1
        <5> QED BY <5>1, <5>2
      <4> HIDE DEF j, x
      <4>2. Blank \in DOMAIN Font
        BY FontIs
      <4>3. Grid(Drawn(x, Blank), Pitch)[cursor_y + 1][cursor_x + 1 - j] = cells[cursor_y + 1][cursor_x + 1 - j]
        BY <1>2, <3>1, <4>1, <4>2, DrawnCells
      <4>4. cells[cursor_y + 1][cursor_x + 1 - j] = line[Len(line) + 1 - j]
        BY <1>2, <4>1 DEF EchoMatchesLine
      <4>5. line'[Len(line) + 1 - j] = line[Len(line) + 1 - j]
        BY <2>1, <4>1
      <4> QED BY <3>1, <4>1, <4>3, <4>4, <4>5
    <3> QED BY <1>1, <1>4, <2>1, <3>1, <3>2, <3>3 DEF ConsoleInv, Phases
  <2> QED BY <2>2, <2>3
<1> QED BY <1>7, <1>8

(* Every step keeps the invariant and is a step of the page.                *)
LEMMA ConsoleStep == ConsoleInv /\ [ConsoleNext]_consoleVars => ConsoleInv' /\ PageStep
<1> SUFFICES ASSUME ConsoleInv, [ConsoleNext]_consoleVars PROVE ConsoleInv' /\ PageStep
  OBVIOUS
<1>1. CASE UNCHANGED consoleVars
  <2>1. /\ frame' = frame /\ gone' = gone /\ text' = text /\ line' = line /\ phase' = phase
        /\ cursor_x' = cursor_x /\ cursor_y' = cursor_y
    BY <1>1 DEF consoleVars, cursor
  <2>2. ScreenInv /\ cursor_x' \in 0 .. COLS - 1
    BY <2>1 DEF ConsoleInv, ScreenInv
  <2>3. ScreenInv' /\ (BelowInv => BelowInv') /\ cells' = cells /\ shown' = shown
    BY <2>1, <2>2, SameRows
  <2>4. EmptyRow' = EmptyRow
    BY <2>1, SameFrame
  <2> QED BY <2>1, <2>3, <2>4 DEF ConsoleInv, PageStep, Written, EchoMatchesLine
<1>2. ASSUME NEW ch \in Glyphs \cup {"NL", "BS"}, Type(ch)
      PROVE  ConsoleInv' /\ PageStep
  <2>1. CASE ch \in Glyphs
    BY <1>2, <2>1, TypeStep
  <2>2. CASE ch = "NL"
    <3>1. phase = "read" /\ text' = <<>> /\ console_putc("NL") /\ phase' = "run" /\ line' = line
      BY <1>2, <2>2 DEF Type
    <3> QED BY <3>1, EnterStep
  <2>3. CASE ch = "BS"
    BY <1>2, <2>3, BackspaceStep
  <2> QED BY <1>2, <2>1, <2>2, <2>3
<1> QED BY <1>1, <1>2, TestStep, BannerStep, PutsStep, PrintedStep, EchoedStep, RunStep, ClearStep DEF ConsoleNext

LEMMA ConsoleSafe == ConsoleSpec => []ConsoleInv
BY ConsoleStart, ConsoleStep, PTL DEF ConsoleSpec

(* No store of the drawing primitives (framebuffer.c:160, 182 and 195) or of *)
(* the console (console.c:469, 491) misses the buffer it draws on, and none  *)
(* lands in the padding of the hardware's rows.                              *)
THEOREM DrawingsStayInside == ConsoleSpec => []InBounds
<1>1. ConsoleInv => InBounds
  BY DEF ConsoleInv, ScreenInv
<1> QED BY <1>1, ConsoleSafe, PTL

(* Whenever kbd_readline waits for a key (kbd.c:236), all that was drawn is  *)
(* on the screen, and the row of the cursor ends in the line as edited.      *)
THEOREM UserSeesTheLine == ConsoleSpec => []Presented
<1>1. ConsoleInv => Presented
  BY DEF ConsoleInv, Presented
<1> QED BY <1>1, ConsoleSafe, PTL

(* console_putc, console_erase_char and console_clear (console.c:539, 665,   *)
(* 657) act on the pixels as a terminal without end acts on its page, wraps, *)
(* tabs and scrolls included.                                                *)
THEOREM PixelsShowThePage == ConsoleSpec => ImplementsPage
<1>1. ConsoleInit => Pages!Init
  BY ConsoleStart
<1>2. ConsoleInv /\ [ConsoleNext]_consoleVars => [Pages!Next]_(Pages!vars)
  BY ConsoleStep DEF PageStep, Pages!vars
<1> QED BY <1>1, <1>2, ConsoleSafe, PTL DEF ConsoleSpec, ImplementsPage, Pages!Spec

-----------------------------------------------------------------------------
(* The xHCI driver.                                                         *)
Steps == Commands \cup {"control"}
Places == [at : 0 .. RING - 1, cycle : {0, 1}]
Told == [mods : SUBSET STRING, keys : Seq(Nat)]

(* The values of the driver's and the controller's state.                   *)
UsbTypeOK ==
    /\ pc \in Steps \cup {"port", "reset", "listen", "ready", "drain", "report", "requeue"}
    /\ port \in 1 .. Ports + 1
    /\ waiting \in BOOLEAN /\ n \in Nat /\ taken \in Nat
    /\ ring \in [0 .. RING - 1 -> [cycle : {0, 1}, type : {"none", "command", "transfer", "port"},
                                   ok : BOOLEAN, of : Nat]]
    /\ dequeue \in Places /\ enqueue \in Places
    /\ queued \in Nat /\ xfers \in Nat /\ failed \in BOOLEAN
    /\ last_report \in Told /\ buf \in Told

(* The entries before the producer's are of its cycle and the others of the *)
(* other; the consumer is behind it, at most around the end of the page.    *)
RingInv ==
    /\ \A i \in 0 .. RING - 1 :
            ring[i].cycle = IF i < enqueue.at THEN enqueue.cycle ELSE 1 - enqueue.cycle
    /\ IF dequeue.cycle = enqueue.cycle THEN dequeue.at <= enqueue.at ELSE enqueue.at < dequeue.at

(* Nothing that was asked is answered later: while the driver waits there   *)
(* is the question or at most one answer to it, otherwise neither.          *)
NewAnswers == {i \in 0 .. RING - 1 : New(i) /\ ring[i].of # 0}
AnswerInv ==
    /\ waiting => pc \in Steps /\ n > 0
    /\ asked # <<>> => waiting /\ asked = <<[step |-> pc, id |-> n]>>
    /\ ~waiting \/ asked # <<>> => NewAnswers = {}
    /\ \A i, j \in NewAnswers : ring[i].of = n /\ i = j
    /\ \A i \in 0 .. RING - 1 : New(i) /\ ring[i].type = "command" => ring[i].of # 0

(* Where a port is set up there is a device, and once the driver listens to *)
(* one there is no other.                                                   *)
PortInv ==
    /\ pc \in (Steps \ {"noop"}) \cup {"reset", "listen"} => port \in Connected
    /\ queued > 0 => /\ pc \in {"port", "ready", "drain", "report", "requeue"}
                     /\ \A p \in Connected : p < port
    /\ pc \in {"ready", "drain", "report", "requeue"} => port > Ports

XferInv == Outstanding = IF 0 < queued /\ queued <= RING THEN 1 ELSE 0

UsbInv == UsbTypeOK /\ RingInv /\ AnswerInv /\ PortInv /\ XferInv

(* The next entry, without the remainder.                                  *)
LEMMA NextIs ==
    ASSUME NEW p \in Places
    PROVE  /\ NextEntry(p) = IF p.at + 1 = RING THEN [at |-> 0, cycle |-> 1 - p.cycle]
                             ELSE [at |-> p.at + 1, cycle |-> p.cycle]
           /\ NextEntry(p) \in Places
<1>1. RING \in Nat \ {0, 1} /\ p.at \in 0 .. RING - 1 /\ p.cycle \in {0, 1}
  BY RingAssumption DEF Places
<1>2. (p.at + 1) % RING = IF p.at + 1 = RING THEN 0 ELSE p.at + 1
  BY <1>1, RemainderNear
<1>. QED
  BY <1>1, <1>2 DEF NextEntry, Places

(* Which entries are new: those from the consumer to the producer.          *)
LEMMA NewAre ==
    ASSUME UsbTypeOK, RingInv
    PROVE  \A i \in 0 .. RING - 1 :
                New(i) <=> IF dequeue.cycle = enqueue.cycle THEN dequeue.at <= i /\ i < enqueue.at
                           ELSE dequeue.at <= i \/ i < enqueue.at
<1>1. /\ RING \in Nat \ {0, 1}
      /\ dequeue.at \in 0 .. RING - 1 /\ dequeue.cycle \in {0, 1}
      /\ enqueue.at \in 0 .. RING - 1 /\ enqueue.cycle \in {0, 1}
  BY RingAssumption DEF UsbTypeOK, Places
<1>. QED
  BY <1>1 DEF RingInv, New

LEMMA EventTaken ==
    ASSUME UsbTypeOK, RingInv, Pending, dequeue' = NextEvent(dequeue), UNCHANGED <<ring, enqueue>>
    PROVE  /\ RingInv' /\ dequeue' \in Places
           /\ dequeue.at \in 0 .. RING - 1 /\ New(dequeue.at)
           /\ \A i \in 0 .. RING - 1 : New(i)' <=> New(i) /\ i # dequeue.at
<1>1. /\ RING \in Nat \ {0, 1} /\ dequeue \in Places
      /\ dequeue.at \in 0 .. RING - 1 /\ dequeue.cycle \in {0, 1}
      /\ enqueue.at \in 0 .. RING - 1 /\ enqueue.cycle \in {0, 1}
  BY RingAssumption DEF UsbTypeOK, Places
<1>2. /\ dequeue' \in Places
      /\ dequeue'.at = IF dequeue.at + 1 = RING THEN 0 ELSE dequeue.at + 1
      /\ dequeue'.cycle = IF dequeue.at + 1 = RING THEN 1 - dequeue.cycle ELSE dequeue.cycle
  BY <1>1, NextIs DEF NextEvent
<1>3. New(dequeue.at)
  BY <1>1 DEF Pending, New
<1>4. IF dequeue.cycle = enqueue.cycle THEN dequeue.at < enqueue.at ELSE enqueue.at < dequeue.at
  BY <1>1, <1>3, NewAre DEF RingInv
<1>5. RingInv'
  BY <1>1, <1>2, <1>4 DEF RingInv
<1>6. ASSUME NEW i \in 0 .. RING - 1
      PROVE  New(i)' <=> New(i) /\ i # dequeue.at
  <2>1. ring'[i].cycle = ring[i].cycle /\ ring[i].cycle \in {0, 1}
    BY DEF UsbTypeOK
  <2>2. New(i)' <=> ring[i].cycle = IF i >= dequeue'.at THEN dequeue'.cycle ELSE 1 - dequeue'.cycle
    BY <2>1 DEF New
  <2>3. ring[i].cycle = IF i < enqueue.at THEN enqueue.cycle ELSE 1 - enqueue.cycle
    BY DEF RingInv
  <2>4. New(i) <=> ring[i].cycle = IF i >= dequeue.at THEN dequeue.cycle ELSE 1 - dequeue.cycle
    BY DEF New
  <2>5. CASE dequeue.at + 1 = RING
    BY <1>1, <1>2, <1>4, <2>1, <2>2, <2>3, <2>4, <2>5
  <2>6. CASE dequeue.at + 1 # RING
    BY <1>1, <1>2, <1>4, <2>1, <2>2, <2>3, <2>4, <2>6
  <2>. QED
    BY <2>5, <2>6
<1>. QED
  BY <1>1, <1>2, <1>3, <1>5, <1>6

LEMMA EventPut ==
    ASSUME UsbTypeOK, RingInv, UNCHANGED dequeue,
           NEW type \in {"command", "transfer", "port"}, NEW ok \in BOOLEAN, NEW of \in Nat,
           Post(type, ok, of)
    PROVE  /\ RingInv' /\ enqueue' \in Places
           /\ ring' \in [0 .. RING - 1 -> [cycle : {0, 1}, type : {"none", "command", "transfer", "port"},
                                          ok : BOOLEAN, of : Nat]]
           /\ enqueue.at \in 0 .. RING - 1 /\ ~New(enqueue.at)
           /\ ring'[enqueue.at].type = type /\ ring'[enqueue.at].of = of
           /\ \A i \in 0 .. RING - 1 : i # enqueue.at => ring'[i] = ring[i]
           /\ \A i \in 0 .. RING - 1 : New(i)' <=> New(i) \/ i = enqueue.at
<1>1. /\ RING \in Nat \ {0, 1} /\ enqueue \in Places
      /\ dequeue.at \in 0 .. RING - 1 /\ dequeue.cycle \in {0, 1}
      /\ enqueue.at \in 0 .. RING - 1 /\ enqueue.cycle \in {0, 1}
  BY RingAssumption DEF UsbTypeOK, Places
<1>2. /\ enqueue' \in Places
      /\ enqueue'.at = IF enqueue.at + 1 = RING THEN 0 ELSE enqueue.at + 1
      /\ enqueue'.cycle = IF enqueue.at + 1 = RING THEN 1 - enqueue.cycle ELSE enqueue.cycle
  BY <1>1, NextIs DEF Post
<1>3. (enqueue.at + 1) % RING = IF enqueue.at + 1 = RING THEN 0 ELSE enqueue.at + 1
  BY <1>1, RemainderNear
<1>4. dequeue.at # IF enqueue.at + 1 = RING THEN 0 ELSE enqueue.at + 1
  BY <1>3 DEF Post, RingRoom
<1>5. /\ ring' \in [0 .. RING - 1 -> [cycle : {0, 1}, type : {"none", "command", "transfer", "port"},
                                      ok : BOOLEAN, of : Nat]]
      /\ \A i \in 0 .. RING - 1 : i # enqueue.at => ring'[i] = ring[i]
      /\ ring'[enqueue.at] = [cycle |-> enqueue.cycle, type |-> type, ok |-> ok, of |-> of]
  BY <1>1 DEF Post, UsbTypeOK
<1>6. \A i \in 0 .. RING - 1 :
          ring'[i].cycle = IF i = enqueue.at THEN enqueue.cycle
                           ELSE IF i < enqueue.at THEN enqueue.cycle ELSE 1 - enqueue.cycle
  BY <1>1, <1>5 DEF RingInv
<1>7. RingInv'
  <2>1. \A i \in 0 .. RING - 1 :
          ring'[i].cycle = IF i < enqueue'.at THEN enqueue'.cycle ELSE 1 - enqueue'.cycle
    BY <1>1, <1>2, <1>6
  <2>2. IF dequeue'.cycle = enqueue'.cycle THEN dequeue'.at <= enqueue'.at ELSE enqueue'.at < dequeue'.at
    BY <1>1, <1>2, <1>4 DEF RingInv
  <2>. QED
    BY <2>1, <2>2 DEF RingInv
<1>8. ~New(enqueue.at)
  BY <1>1, NewAre DEF RingInv
<1>9. ASSUME NEW i \in 0 .. RING - 1
      PROVE  New(i)' <=> New(i) \/ i = enqueue.at
  <2>1. CASE i = enqueue.at
    BY <2>1, <1>1, <1>6 DEF New, RingInv
  <2>2. CASE i # enqueue.at
    BY <2>2, <1>5 DEF New
  <2>. QED
    BY <2>1, <2>2
<1>. QED
  BY <1>1, <1>2, <1>5, <1>7, <1>8, <1>9

(* What these three do to the set of answers and of completed transfers.    *)
LEMMA RingSame ==
    ASSUME UNCHANGED <<ring, dequeue, enqueue>>, RingInv
    PROVE  /\ RingInv' /\ NewAnswers' = NewAnswers /\ Completed' = Completed
           /\ \A i \in 0 .. RING - 1 : New(i)' <=> New(i)
BY DEF RingInv, NewAnswers, Completed, New

LEMMA SetsTaken ==
    ASSUME UsbTypeOK, RingInv, Pending, dequeue' = NextEvent(dequeue), UNCHANGED <<ring, enqueue>>
    PROVE  NewAnswers' = NewAnswers \ {dequeue.at} /\ Completed' = Completed \ {dequeue.at}
BY EventTaken DEF NewAnswers, Completed

LEMMA SetsPut ==
    ASSUME UsbTypeOK, RingInv, UNCHANGED dequeue,
           NEW type \in {"command", "transfer", "port"}, NEW ok \in BOOLEAN, NEW of \in Nat,
           Post(type, ok, of)
    PROVE  /\ NewAnswers' = NewAnswers \cup (IF of # 0 THEN {enqueue.at} ELSE {})
           /\ Completed' = Completed \cup (IF type = "transfer" /\ of = 0 THEN {enqueue.at} ELSE {})
           /\ enqueue.at \notin NewAnswers /\ enqueue.at \notin Completed
<1>1. /\ enqueue.at \in 0 .. RING - 1 /\ ~New(enqueue.at)
      /\ ring'[enqueue.at].type = type /\ ring'[enqueue.at].of = of
      /\ \A i \in 0 .. RING - 1 : i # enqueue.at => ring'[i] = ring[i]
      /\ \A i \in 0 .. RING - 1 : New(i)' <=> New(i) \/ i = enqueue.at
  BY EventPut
<1>2. /\ NewAnswers' = {i \in 0 .. RING - 1 : New(i)' /\ ring'[i].of # 0}
      /\ Completed' = {i \in 0 .. RING - 1 : New(i)' /\ ring'[i].type = "transfer" /\ ring'[i].of = 0}
  BY DEF NewAnswers, Completed
<1>. QED
  BY <1>1, <1>2 DEF NewAnswers, Completed

LEMMA CompletedFinite ==
    IsFiniteSet(Completed) /\ Cardinality(Completed) \in Nat
<1>1. IsFiniteSet(0 .. RING - 1)
  BY RingAssumption, FS_Interval
<1>2. IsFiniteSet(Completed)
  BY <1>1, FS_Subset DEF Completed
<1>. QED
  BY <1>2, FS_CardinalityType

(* Without an interrupt handler at work and a listening driver there is no  *)
(* transfer anywhere.                                                       *)
LEMMA NoTransfer ==
    ASSUME UsbTypeOK, XferInv, queued = 0
    PROVE  xfers = 0 /\ Completed = {} /\ pc \notin {"report", "requeue"}
<1>1. Cardinality(Completed) \in Nat /\ xfers \in Nat
  BY CompletedFinite DEF UsbTypeOK
<1>2. Outstanding = 0
  BY DEF XferInv
<1>3. xfers = 0 /\ Cardinality(Completed) = 0 /\ pc \notin {"report", "requeue"}
  BY <1>1, <1>2 DEF Outstanding
<1>. QED
  BY <1>3, CompletedFinite, FS_EmptySet

(* An event that is taken for an answer is the answer to the last question. *)
LEMMA AnswerIsOwn ==
    ASSUME UsbInv, Wait, taken' # taken
    PROVE  taken' = n /\ dequeue.at \in NewAnswers
<1> USE DEF UsbInv
<1>1. /\ waiting /\ Pending /\ Wanted(Ev) /\ taken' = Ev.of /\ pc \in Steps
      /\ UNCHANGED <<ring, enqueue>> /\ dequeue' = NextEvent(dequeue)
  BY DEF Wait, AnswerInv, controller
<1>2. dequeue.at \in 0 .. RING - 1 /\ New(dequeue.at)
  BY <1>1, EventTaken
<1>3. queued = 0
  BY <1>1 DEF PortInv, UsbTypeOK, Steps, Commands
<1>4. Completed = {}
  BY <1>3, NoTransfer
<1>5. dequeue.at \in NewAnswers
  BY <1>1, <1>2, <1>4 DEF Wanted, Ev, Completed, NewAnswers, AnswerInv
<1>. QED
  BY <1>1, <1>5 DEF AnswerInv, Ev

LEMMA UsbStart == UsbInit => UsbInv
<1> SUFFICES ASSUME UsbInit PROVE UsbInv
  OBVIOUS
<1>1. RING \in Nat \ {0, 1} /\ Ports \in Nat
  BY RingAssumption
<1>2. NoKeys \in Told
  BY DEF NoKeys, Told
<1>3. UsbTypeOK
  <2>1. NoEvent \in [cycle : {0, 1}, type : {"none", "command", "transfer", "port"}, ok : BOOLEAN, of : Nat]
    BY DEF NoEvent
  <2>2. Start \in Places
    BY <1>1 DEF Start, Places
  <2>3. ring \in [0 .. RING - 1 -> [cycle : {0, 1}, type : {"none", "command", "transfer", "port"},
                                  ok : BOOLEAN, of : Nat]]
    BY <2>1 DEF UsbInit
  <2>4. port \in 1 .. Ports + 1 /\ n \in Nat /\ taken \in Nat /\ queued \in Nat /\ xfers \in Nat
    BY <1>1 DEF UsbInit
  <2>5. waiting \in BOOLEAN /\ failed \in BOOLEAN /\ pc \in Steps
    BY DEF UsbInit, Steps, Commands
  <2>. QED
    BY <1>2, <2>2, <2>3, <2>4, <2>5 DEF UsbInit, UsbTypeOK
<1>4. RingInv
  BY <1>1 DEF UsbInit, RingInv, Start, NoEvent
<1>5. \A i \in 0 .. RING - 1 : ~New(i)
  BY <1>1, <1>3, <1>4, NewAre DEF UsbInit, Start
<1>6. AnswerInv
  BY <1>5 DEF UsbInit, AnswerInv, NewAnswers
<1>7. PortInv
  BY DEF UsbInit, PortInv, Steps, Commands
<1>8. XferInv
  <2>1. Completed = {} /\ Cardinality({}) = 0
    BY <1>5, FS_EmptySet DEF Completed
  <2>. QED
    BY <2>1 DEF UsbInit, XferInv, Outstanding
<1>. QED
  BY <1>3, <1>4, <1>6, <1>7, <1>8 DEF UsbInv

(* Each action on the driver's side that leaves the rings alone.            *)
LEMMA QuietStep ==
    ASSUME UsbInv, OneDevice,
           Send \/ TimeOut \/ ResetPort \/ PortIsReset \/ Booted \/ Irq \/ Drained
    PROVE  UsbInv'
<1> USE DEF UsbInv
<1>1. UNCHANGED <<ring, dequeue, enqueue, xfers, queued, failed, last_report, buf>>
  BY DEF Send, TimeOut, ResetPort, PortIsReset, Booted, Irq, Drained, controller
<1>2. /\ RingInv' /\ NewAnswers' = NewAnswers /\ Completed' = Completed
      /\ \A i \in 0 .. RING - 1 : New(i)' <=> New(i)
  BY <1>1, RingSame
<1>3. Ports \in Nat /\ Connected \subseteq 1 .. Ports
  BY RingAssumption
<1>4. UsbTypeOK'
  <2>1. pc' \in Steps \cup {"port", "reset", "listen", "ready", "drain", "report", "requeue"}
    BY DEF Send, TimeOut, ResetPort, PortIsReset, Booted, Irq, Drained, Resume, Then, UsbTypeOK, Steps, Commands
  <2>2. port' \in 1 .. Ports + 1
    <3>1. CASE TimeOut
      <4>1. port \in 1 .. Ports + 1 /\ (pc = "noop" \/ port \in Connected)
        BY <3>1 DEF TimeOut, AnswerInv, PortInv, UsbTypeOK
      <4>2. port' = port \/ (port' = port + 1 /\ pc # "noop")
        BY <3>1 DEF TimeOut, Resume
      <4>. QED
        BY <4>1, <4>2, <1>3
    <3>2. CASE PortIsReset
      BY <3>2, <1>3 DEF PortIsReset, PortInv, UsbTypeOK
    <3>3. CASE ResetPort
      BY <3>3, <1>3 DEF ResetPort, UsbTypeOK
    <3>4. CASE Send \/ Booted \/ Irq \/ Drained
      BY <3>4 DEF Send, Booted, Irq, Drained, UsbTypeOK
    <3>. QED
      BY <3>1, <3>2, <3>3, <3>4
  <2>3. waiting' \in BOOLEAN /\ n' \in Nat /\ taken' \in Nat
    <3>1. CASE Send
      BY <3>1 DEF Send, UsbTypeOK
    <3>2. CASE TimeOut
      BY <3>2 DEF TimeOut, UsbTypeOK
    <3>3. CASE ResetPort \/ PortIsReset \/ Booted \/ Irq \/ Drained
      BY <3>3 DEF ResetPort, PortIsReset, Booted, Irq, Drained, UsbTypeOK
    <3>. QED
      BY <3>1, <3>2, <3>3
  <2>. QED
    BY <1>1, <2>1, <2>2, <2>3 DEF UsbTypeOK
<1>5. AnswerInv'
  <2>1. CASE Send
    <3>1. asked = <<>> /\ NewAnswers = {} /\ n \in Nat /\ pc \in Steps
      BY <2>1 DEF Send, AnswerInv, UsbTypeOK, Steps
    <3>2. asked' = <<[step |-> pc, id |-> n + 1]>> /\ n' = n + 1 /\ waiting' = TRUE /\ pc' = pc
      BY <2>1, <3>1 DEF Send
    <3>. QED
      BY <3>1, <3>2, <1>1, <1>2 DEF AnswerInv
  <2>2. CASE TimeOut
    <3>1. \A i \in 0 .. RING - 1 : ~New(i)
      <4>1. /\ dequeue.at \in 0 .. RING - 1 /\ dequeue.cycle \in {0, 1}
            /\ enqueue.at \in 0 .. RING - 1 /\ enqueue.cycle \in {0, 1} /\ RING \in Nat
        BY RingAssumption DEF UsbTypeOK, Places
      <4>2. ~New(dequeue.at)
        BY <2>2, <4>1 DEF TimeOut, Pending, New
      <4>. QED
        BY <4>1, <4>2, NewAre DEF RingInv
    <3>2. asked' = <<>> /\ NewAnswers' = {} /\ waiting' = FALSE
      BY <2>2, <3>1, <1>2 DEF TimeOut, NewAnswers
    <3>. QED
      BY <3>1, <3>2, <1>2 DEF AnswerInv
  <2>3. CASE ResetPort \/ PortIsReset \/ Booted \/ Irq \/ Drained
    <3>1. UNCHANGED <<waiting, asked, n>> /\ ~waiting
      BY <2>3 DEF ResetPort, PortIsReset, Booted, Irq, Drained, AnswerInv, Steps, Commands
    <3>. QED
      BY <3>1, <1>1, <1>2 DEF AnswerInv
  <2>. QED
    BY <2>1, <2>2, <2>3
<1>6. PortInv'
  <2>1. CASE Send
    BY <2>1, <1>1 DEF Send, PortInv
  <2>2. CASE TimeOut
    BY <2>2, <1>1 DEF TimeOut, PortInv, AnswerInv, Resume, Then, Steps, Commands, UsbTypeOK
  <2>3. CASE ResetPort
    BY <2>3, <1>1, <1>3 DEF ResetPort, PortInv, Steps, Commands, UsbTypeOK
  <2>4. CASE PortIsReset
    BY <2>4, <1>1, <1>3 DEF PortIsReset, PortInv, Steps, Commands, UsbTypeOK
  <2>5. CASE Booted \/ Irq \/ Drained
    BY <2>5, <1>1, <1>3 DEF Booted, Irq, Drained, PortInv, Steps, Commands, UsbTypeOK
  <2>. QED
    BY <2>1, <2>2, <2>3, <2>4, <2>5
<1>7. XferInv'
  <2>1. pc \notin {"report", "requeue"} /\ pc' \notin {"report", "requeue"}
    BY DEF Send, TimeOut, ResetPort, PortIsReset, Booted, Irq, Drained, Resume, Then, Steps, Commands, AnswerInv
  <2>. QED
    BY <1>1, <1>2, <2>1 DEF XferInv, Outstanding
<1>. QED
  BY <1>2, <1>4, <1>5, <1>6, <1>7

(* The driver takes an event while it sets a port up, and as an interrupt.  *)
LEMMA WaitStep ==
    ASSUME UsbInv, OneDevice, Wait
    PROVE  UsbInv'
<1> USE DEF UsbInv
<1>1. /\ waiting /\ Pending /\ dequeue' = NextEvent(dequeue)
      /\ UNCHANGED <<ring, enqueue, xfers, queued, failed, last_report, buf, n, asked>>
  BY DEF Wait, controller
<1>2. /\ RingInv' /\ dequeue' \in Places
      /\ dequeue.at \in 0 .. RING - 1 /\ New(dequeue.at)
      /\ \A i \in 0 .. RING - 1 : New(i)' <=> New(i) /\ i # dequeue.at
  BY <1>1, EventTaken
<1>3. NewAnswers' = NewAnswers \ {dequeue.at} /\ Completed' = Completed \ {dequeue.at}
  BY <1>1, SetsTaken
<1>4. Ports \in Nat /\ Connected \subseteq 1 .. Ports
  BY RingAssumption
<1>5. pc \in Steps /\ queued = 0 /\ Completed = {} /\ (pc = "noop" \/ port \in Connected)
  <2>1. pc \in Steps
    BY <1>1 DEF AnswerInv
  <2>2. queued = 0
    BY <2>1 DEF PortInv, UsbTypeOK, Steps, Commands
  <2>. QED
    BY <2>1, <2>2, NoTransfer DEF PortInv
<1>6. \/ Resume(pc, Ev.ok) /\ waiting' = FALSE /\ taken' = Ev.of /\ Wanted(Ev)
      \/ UNCHANGED <<pc, port, waiting, taken>>
  BY DEF Wait
<1>7. /\ pc' \in Steps \cup {"port", "listen"}
      /\ pc' \in (Steps \ {"noop"}) \cup {"listen"} => port' \in Connected
      /\ port' = port \/ (port' = port + 1 /\ pc # "noop")
  BY <1>5, <1>6 DEF Resume, Then, Steps, Commands
<1>8. UsbTypeOK'
  <2>1. port' \in 1 .. Ports + 1
    BY <1>4, <1>5, <1>7 DEF UsbTypeOK
  <2>2. Ev.of \in Nat
    BY <1>2 DEF Ev, UsbTypeOK
  <2>3. waiting' \in BOOLEAN /\ taken' \in Nat
    BY <1>6, <2>2 DEF UsbTypeOK
  <2>. QED
    BY <1>1, <1>2, <1>7, <2>1, <2>3 DEF UsbTypeOK
<1>9. AnswerInv'
  <2>1. CASE UNCHANGED <<pc, port, waiting, taken>>
    BY <2>1, <1>1, <1>2, <1>3 DEF AnswerInv
  <2>2. CASE Resume(pc, Ev.ok) /\ waiting' = FALSE /\ taken' = Ev.of /\ Wanted(Ev)
    <3>1. dequeue.at \in NewAnswers
      <4>1. CASE pc = "control"
        BY <1>1, <1>2, <1>5, <2>2, <4>1 DEF Wanted, Ev, Completed, NewAnswers
      <4>2. CASE pc # "control"
        BY <1>1, <1>2, <2>2, <4>2 DEF Wanted, Ev, AnswerInv, NewAnswers
      <4>. QED
        BY <4>1, <4>2
    <3>2. asked = <<>> /\ NewAnswers' = {}
      BY <3>1, <1>3 DEF AnswerInv
    <3>. QED
      BY <3>2, <2>2, <1>1, <1>2 DEF AnswerInv
  <2>. QED
    BY <2>1, <2>2, <1>6
<1>10. PortInv'
  BY <1>1, <1>5, <1>7 DEF PortInv, Steps, Commands
<1>11. XferInv'
  <2>1. pc \notin {"report", "requeue"} /\ pc' \notin {"report", "requeue"}
    BY <1>5, <1>7 DEF Steps, Commands
  <2>2. Completed' = Completed
    BY <1>3, <1>5
  <2>. QED
    BY <1>1, <2>1, <2>2 DEF XferInv, Outstanding
<1>. QED
  BY <1>2, <1>8, <1>9, <1>10, <1>11

LEMMA DrainStep ==
    ASSUME UsbInv, Drain
    PROVE  UsbInv'
<1> USE DEF UsbInv
<1>1. /\ pc = "drain" /\ Pending /\ dequeue' = NextEvent(dequeue)
      /\ pc' = (IF Ev.type = "transfer" THEN "report" ELSE "drain") /\ failed' = ~Ev.ok
      /\ UNCHANGED <<ring, enqueue, xfers, queued, last_report, buf, n, asked, waiting, port, taken>>
  BY DEF Drain, controller
<1>2. /\ RingInv' /\ dequeue' \in Places
      /\ dequeue.at \in 0 .. RING - 1 /\ New(dequeue.at)
      /\ \A i \in 0 .. RING - 1 : New(i)' <=> New(i) /\ i # dequeue.at
  BY <1>1, EventTaken
<1>3. NewAnswers' = NewAnswers \ {dequeue.at} /\ Completed' = Completed \ {dequeue.at}
  BY <1>1, SetsTaken
<1>4. ~waiting /\ NewAnswers = {}
  BY <1>1 DEF AnswerInv, Steps, Commands
<1>5. UsbTypeOK'
  <2>1. failed' \in BOOLEAN
    BY <1>1
  <2>. QED
    BY <1>1, <1>2, <2>1 DEF UsbTypeOK
<1>6. AnswerInv'
  BY <1>1, <1>2, <1>3, <1>4 DEF AnswerInv
<1>7. PortInv'
  BY <1>1 DEF PortInv, Steps, Commands
<1>8. XferInv'
  <2>1. dequeue.at \in Completed <=> Ev.type = "transfer"
    BY <1>2, <1>4 DEF Ev, Completed, NewAnswers, UsbTypeOK
  <2>2. IsFiniteSet(Completed) /\ Cardinality(Completed) \in Nat
    BY CompletedFinite
  <2>3. Cardinality(Completed') = Cardinality(Completed) - IF dequeue.at \in Completed THEN 1 ELSE 0
    <3>1. CASE dequeue.at \in Completed
      BY <1>3, <2>2, <3>1, FS_RemoveElement
    <3>2. CASE dequeue.at \notin Completed
      <4>1. Completed' = Completed
        BY <1>3, <3>2
      <4>. QED
        BY <2>2, <3>2, <4>1
    <3>. QED
      BY <3>1, <3>2
  <2>. QED
    BY <1>1, <2>1, <2>2, <2>3 DEF XferInv, Outstanding, UsbTypeOK
<1>. QED
  BY <1>2, <1>5, <1>6, <1>7, <1>8

LEMMA QueueStep ==
    ASSUME UsbInv, OneDevice, Listen \/ Requeued \/ xhci_handle_keyboard_report
    PROVE  UsbInv'
<1> USE DEF UsbInv
<1>1. /\ UNCHANGED <<ring, dequeue, enqueue, buf, failed, n, taken, asked, waiting>>
      /\ pc \in {"listen", "requeue", "report"}
  BY DEF Listen, Requeued, xhci_handle_keyboard_report, controller
<1>2. /\ RingInv' /\ NewAnswers' = NewAnswers /\ Completed' = Completed
      /\ \A i \in 0 .. RING - 1 : New(i)' <=> New(i)
  BY <1>1, RingSame
<1>3. Ports \in Nat /\ Connected \subseteq 1 .. Ports /\ RING \in Nat \ {0, 1}
  BY RingAssumption
<1>4. ~waiting
  BY <1>1 DEF AnswerInv, Steps, Commands
<1>5. AnswerInv'
  BY <1>1, <1>2, <1>4 DEF AnswerInv
<1>6. Cardinality(Completed) \in Nat /\ xfers \in Nat /\ queued \in Nat /\ port \in 1 .. Ports + 1
  BY CompletedFinite DEF UsbTypeOK
<1>7. CASE Listen
  <2>1. /\ pc = "listen" /\ pc' = "port" /\ port' = port + 1 /\ last_report' = last_report
        /\ queued' = queued + 1 /\ xfers' = (IF queued < RING THEN xfers + 1 ELSE xfers)
    BY <1>7 DEF Listen, xhci_queue_transfer
  <2>2. port \in Connected /\ queued = 0
    BY <2>1, <1>6 DEF PortInv, Steps, Commands
  <2>3. xfers = 0 /\ Completed = {}
    BY <2>2, NoTransfer
  <2>4. UsbTypeOK'
    BY <1>1, <1>3, <1>6, <2>1, <2>2 DEF UsbTypeOK
  <2>5. \A p \in Connected : p = port /\ p \in Nat
    BY <1>3, <2>2 DEF OneDevice
  <2>6. PortInv'
    BY <1>3, <2>1, <2>2, <2>5 DEF PortInv, Steps, Commands
  <2>7. XferInv'
    BY <1>2, <1>3, <2>1, <2>2, <2>3, FS_EmptySet DEF XferInv, Outstanding
  <2>. QED
    BY <1>2, <1>5, <2>4, <2>6, <2>7
<1>8. CASE Requeued
  <2>1. /\ pc = "requeue" /\ pc' = "drain" /\ port' = port /\ last_report' = last_report
        /\ queued' = queued + 1 /\ xfers' = (IF queued < RING THEN xfers + 1 ELSE xfers)
    BY <1>8 DEF Requeued, xhci_queue_transfer
  <2>2. 0 < queued /\ queued <= RING /\ xfers = 0 /\ Cardinality(Completed) = 0
    BY <1>6, <2>1 DEF XferInv, Outstanding
  <2>3. UsbTypeOK'
    BY <1>1, <1>6, <2>1 DEF UsbTypeOK
  <2>4. PortInv'
    BY <2>1, <2>2 DEF PortInv, Steps, Commands
  <2>5. XferInv'
    BY <1>2, <1>3, <1>6, <2>1, <2>2 DEF XferInv, Outstanding
  <2>. QED
    BY <1>2, <1>5, <2>3, <2>4, <2>5
<1>9. CASE xhci_handle_keyboard_report
  <2>1. /\ pc = "report" /\ pc' = "requeue" /\ UNCHANGED <<port, queued, xfers>>
        /\ last_report' = last_report \/ last_report' = buf
    BY <1>9 DEF xhci_handle_keyboard_report
  <2>2. UsbTypeOK'
    BY <1>1, <2>1 DEF UsbTypeOK
  <2>3. PortInv'
    BY <2>1 DEF PortInv, Steps, Commands
  <2>4. XferInv'
    BY <1>2, <2>1 DEF XferInv, Outstanding
  <2>. QED
    BY <1>2, <1>5, <2>2, <2>3, <2>4
<1>. QED
  BY <1>7, <1>8, <1>9

(* What the controller does.                                               *)
LEMMA ControllerStep ==
    ASSUME UsbInv, HcAnswer \/ HcPortReset \/ HcReport
    PROVE  UsbInv'
<1> USE DEF UsbInv
<1>1. UNCHANGED <<pc, port, waiting, n, taken, dequeue, queued, last_report, failed>>
  BY DEF HcAnswer, HcPortReset, HcReport, driver
<1>2. PortInv'
  BY <1>1 DEF PortInv
<1>3. IsFiniteSet(Completed) /\ Cardinality(Completed) \in Nat /\ xfers \in Nat
  BY CompletedFinite DEF UsbTypeOK
<1>4. CASE HcAnswer
  <2>1. asked = <<[step |-> pc, id |-> n]>> /\ waiting /\ NewAnswers = {} /\ n \in Nat /\ n > 0
    BY <1>4 DEF HcAnswer, AnswerInv, UsbTypeOK
  <2>2. /\ asked' = <<>> /\ UNCHANGED <<buf, xfers>>
        /\ \/ \E type \in {"command", "transfer"}, ok \in BOOLEAN : Post(type, ok, n)
           \/ UNCHANGED <<ring, enqueue>>
    <3>1. Head(asked).id = n /\ Tail(asked) = <<>>
      BY <2>1
    <3>. QED
      BY <1>4, <3>1 DEF HcAnswer
  <2>3. ASSUME NEW type \in {"command", "transfer"}, NEW ok \in BOOLEAN, Post(type, ok, n)
        PROVE  UsbInv'
    <3>1. /\ RingInv' /\ enqueue' \in Places
          /\ ring' \in [0 .. RING - 1 -> [cycle : {0, 1}, type : {"none", "command", "transfer", "port"},
                                         ok : BOOLEAN, of : Nat]]
          /\ enqueue.at \in 0 .. RING - 1
          /\ ring'[enqueue.at].type = type /\ ring'[enqueue.at].of = n
          /\ \A i \in 0 .. RING - 1 : i # enqueue.at => ring'[i] = ring[i]
          /\ \A i \in 0 .. RING - 1 : New(i)' <=> New(i) \/ i = enqueue.at
      BY <1>1, <2>1, <2>3, EventPut
    <3>2. NewAnswers' = {enqueue.at} /\ Completed' = Completed
      BY <1>1, <2>1, <2>3, SetsPut
    <3>3. UsbTypeOK'
      BY <1>1, <2>2, <3>1 DEF UsbTypeOK
    <3>4. AnswerInv'
      BY <1>1, <2>1, <2>2, <3>1, <3>2 DEF AnswerInv
    <3>5. XferInv'
      BY <1>1, <2>2, <3>2 DEF XferInv, Outstanding
    <3>. QED
      BY <1>2, <3>1, <3>3, <3>4, <3>5
  <2>4. CASE UNCHANGED <<ring, enqueue>>
    <3>1. /\ RingInv' /\ NewAnswers' = NewAnswers /\ Completed' = Completed
          /\ \A i \in 0 .. RING - 1 : New(i)' <=> New(i)
      BY <1>1, <2>4, RingSame
    <3>2. UsbTypeOK'
      BY <1>1, <2>2, <2>4 DEF UsbTypeOK
    <3>3. AnswerInv'
      BY <1>1, <2>1, <2>2, <2>4, <3>1 DEF AnswerInv
    <3>4. XferInv'
      BY <1>1, <2>2, <3>1 DEF XferInv, Outstanding
    <3>. QED
      BY <1>2, <3>1, <3>2, <3>3, <3>4
  <2>. QED
    BY <2>2, <2>3, <2>4
<1>5. CASE HcPortReset
  <2>1. Post("port", TRUE, 0) /\ UNCHANGED <<buf, asked, xfers>>
    BY <1>5 DEF HcPortReset
  <2>2. /\ RingInv' /\ enqueue' \in Places
        /\ ring' \in [0 .. RING - 1 -> [cycle : {0, 1}, type : {"none", "command", "transfer", "port"},
                                       ok : BOOLEAN, of : Nat]]
        /\ enqueue.at \in 0 .. RING - 1
        /\ ring'[enqueue.at].type = "port"
        /\ \A i \in 0 .. RING - 1 : i # enqueue.at => ring'[i] = ring[i]
        /\ \A i \in 0 .. RING - 1 : New(i)' <=> New(i) \/ i = enqueue.at
    BY <1>1, <2>1, EventPut
  <2>3. NewAnswers' = NewAnswers /\ Completed' = Completed
    BY <1>1, <2>1, SetsPut
  <2>4. UsbTypeOK'
    BY <1>1, <2>1, <2>2 DEF UsbTypeOK
  <2>5. AnswerInv'
    <3>1. \A i \in NewAnswers : ring'[i] = ring[i]
      <4>1. enqueue.at \notin NewAnswers
        BY <1>1, <2>1, SetsPut
      <4>. QED
        BY <2>2, <4>1 DEF NewAnswers
    <3>2. \A i \in 0 .. RING - 1 : New(i)' /\ ring'[i].type = "command" => ring'[i].of # 0
      BY <2>2 DEF AnswerInv
    <3>. QED
      BY <1>1, <2>1, <2>3, <3>1, <3>2 DEF AnswerInv
  <2>6. XferInv'
    BY <1>1, <2>1, <2>3 DEF XferInv, Outstanding
  <2>. QED
    BY <1>2, <2>2, <2>4, <2>5, <2>6
<1>6. CASE HcReport
  <2>1. /\ xfers > 0 /\ xfers' = xfers - 1 /\ asked' = asked /\ buf' \in Told
        /\ \E ok \in BOOLEAN : Post("transfer", ok, 0)
    BY <1>6, KeysAssumption DEF HcReport, UsbTypeOK, Told
  <2>2. PICK ok \in BOOLEAN : Post("transfer", ok, 0)
    BY <2>1
  <2>3. /\ RingInv' /\ enqueue' \in Places
        /\ ring' \in [0 .. RING - 1 -> [cycle : {0, 1}, type : {"none", "command", "transfer", "port"},
                                       ok : BOOLEAN, of : Nat]]
        /\ enqueue.at \in 0 .. RING - 1
        /\ ring'[enqueue.at].type = "transfer"
        /\ \A i \in 0 .. RING - 1 : i # enqueue.at => ring'[i] = ring[i]
        /\ \A i \in 0 .. RING - 1 : New(i)' <=> New(i) \/ i = enqueue.at
    BY <1>1, <2>2, EventPut
  <2>4. /\ NewAnswers' = NewAnswers /\ enqueue.at \notin NewAnswers
        /\ Completed' = Completed \cup {enqueue.at} /\ enqueue.at \notin Completed
    BY <1>1, <2>2, SetsPut
  <2>5. UsbTypeOK'
    BY <1>1, <1>3, <2>1, <2>3 DEF UsbTypeOK
  <2>6. AnswerInv'
    <3>1. \A i \in NewAnswers : ring'[i] = ring[i]
      BY <2>3, <2>4 DEF NewAnswers
    <3>2. \A i \in 0 .. RING - 1 : New(i)' /\ ring'[i].type = "command" => ring'[i].of # 0
      BY <2>3 DEF AnswerInv
    <3>. QED
      BY <1>1, <2>1, <2>4, <3>1, <3>2 DEF AnswerInv
  <2>7. Cardinality(Completed') = Cardinality(Completed) + 1
    BY <1>3, <2>4, FS_AddElement
  <2>8. XferInv'
    BY <1>1, <1>3, <2>1, <2>7 DEF XferInv, Outstanding
  <2>. QED
    BY <1>2, <2>3, <2>5, <2>6, <2>8
<1>. QED
  BY <1>4, <1>5, <1>6

LEMMA UsbStep ==
    ASSUME UsbInv, OneDevice, [UsbNext]_usbVars
    PROVE  UsbInv'
<1>1. CASE UNCHANGED usbVars
  <2>1. UNCHANGED <<pc, port, waiting, n, taken, dequeue, queued, last_report, buf, failed, ring, asked,
                    enqueue, xfers>>
    BY <1>1 DEF usbVars, driver, controller
  <2>2. /\ RingInv' /\ NewAnswers' = NewAnswers /\ Completed' = Completed
        /\ \A i \in 0 .. RING - 1 : New(i)' <=> New(i)
    BY <2>1, RingSame DEF UsbInv
  <2>3. UsbTypeOK' /\ PortInv'
    BY <2>1 DEF UsbInv, UsbTypeOK, PortInv
  <2>4. AnswerInv' /\ XferInv'
    BY <2>1, <2>2 DEF UsbInv, AnswerInv, XferInv, Outstanding
  <2>. QED
    BY <2>2, <2>3, <2>4 DEF UsbInv
<1>2. CASE UsbNext
  BY <1>2, QuietStep, WaitStep, DrainStep, QueueStep, ControllerStep DEF UsbNext, UsbDriver
<1>. QED
  BY <1>1, <1>2

(* What two sequences one after the other hold.                             *)
Joined(s, t) == Range(s \o t) = Range(s) \cup Range(t)

LEMMA OneAfterOther ==
    ASSUME NEW T, NEW s \in Seq(T), NEW t \in Seq(T)
    PROVE  Joined(s, t)
<1> USE DEF Joined
<1>1. /\ DOMAIN s = 1 .. Len(s) /\ DOMAIN t = 1 .. Len(t) /\ Len(s) \in Nat /\ Len(t) \in Nat
      /\ DOMAIN (s \o t) = 1 .. Len(s) + Len(t)
      /\ \A i \in 1 .. Len(s) + Len(t) : (s \o t)[i] = IF i <= Len(s) THEN s[i] ELSE t[i - Len(s)]
  OBVIOUS
<1>2. ASSUME NEW i \in 1 .. Len(t)
      PROVE  \E j \in DOMAIN (s \o t) : (s \o t)[j] = t[i]
  <2>1. i + Len(s) \in 1 .. Len(s) + Len(t) /\ ~ (i + Len(s) <= Len(s)) /\ (i + Len(s)) - Len(s) = i
    BY <1>1
  <2>. QED
    BY <1>1, <1>2, <2>1
<1>3. ASSUME NEW i \in 1 .. Len(s)
      PROVE  \E j \in DOMAIN (s \o t) : (s \o t)[j] = s[i]
  BY <1>1, <1>3
<1>4. ASSUME NEW i \in DOMAIN (s \o t)
      PROVE  (\E j \in DOMAIN s : s[j] = (s \o t)[i]) \/ (\E j \in DOMAIN t : t[j] = (s \o t)[i])
  <2>1. CASE i <= Len(s)
    BY <1>1, <1>4, <2>1
  <2>2. CASE ~ (i <= Len(s))
    <3>1. i - Len(s) \in 1 .. Len(t)
      BY <1>1, <2>2
    <3>. QED
      BY <1>1, <1>4, <2>2, <3>1
  <2>. QED
    BY <2>1, <2>2
<1>. QED
  <2>1. \A e : e \in Range(s \o t) <=> \E i \in DOMAIN (s \o t) : e = (s \o t)[i]
    BY DEF Range
  <2>2. \A e : e \in Range(s) <=> \E i \in DOMAIN s : e = s[i]
    BY DEF Range
  <2>3. \A e : e \in Range(t) <=> \E i \in DOMAIN t : e = t[i]
    BY DEF Range
  <2>4. \A e \in Range(s) \cup Range(t) : e \in Range(s \o t)
    <3>1. ASSUME NEW e \in Range(s)
          PROVE  e \in Range(s \o t)
      BY <1>1, <1>3, <2>1, <2>2
    <3>2. ASSUME NEW e \in Range(t)
          PROVE  e \in Range(s \o t)
      BY <1>1, <1>2, <2>1, <2>3
    <3>. QED
      BY <3>1, <3>2
  <2>5. \A e \in Range(s \o t) : e \in Range(s) \cup Range(t)
    BY <1>4, <2>1, <2>2, <2>3
  <2>. QED
    BY <2>4, <2>5

LEMMA ModifiersAre ==
    /\ DOMAIN Modifiers = 1 .. Len(Modifiers) /\ Len(Modifiers) \in Nat
    /\ \A i \in DOMAIN Modifiers : Modifiers[i] \in [name : STRING, code : Nat \ {0}]
    /\ \A m \in Range(Modifiers) : m.code \in Nat \ {0}
<1> DEFINE R == [name : STRING, code : Nat \ {0}]
<1>1. Modifiers \in Seq(R)
  BY KeysAssumption
<1>2. \A m \in R : m.code \in Nat \ {0}
  OBVIOUS
<1> HIDE DEF R
<1>3. /\ DOMAIN Modifiers = 1 .. Len(Modifiers) /\ Len(Modifiers) \in Nat
      /\ \A i \in DOMAIN Modifiers : Modifiers[i] \in R
  BY <1>1
<1>. QED
  BY <1>2, <1>3 DEF R, Range

(* Which calls of the keyboard driver two reports lead to: for a code, a    *)
(* press of what the first lacks and a release of what the second lacks.    *)
Pressed(last, new, code) ==
    \/ \E k \in Keys(new) \ Keys(last) : Code(k) = code
    \/ \E m \in Range(Modifiers) : m.code = code /\ m.name \in new.mods /\ m.name \notin last.mods

LEMMA CallsAre ==
    ASSUME NEW last \in Told, NEW new \in Told, NEW code \in Nat \ {0}
    PROVE  /\ (\E i \in DOMAIN Sent(last, new) : Sent(last, new)[i] = Event(code, TRUE))
                <=> Pressed(last, new, code)
           /\ (\E i \in DOMAIN Sent(last, new) : Sent(last, new)[i] = Event(code, FALSE))
                <=> Pressed(new, last, code)
           /\ Sent(last, new) \in Seq([code : Nat, down : BOOLEAN])
<1> DEFINE A == Changed(new, last, TRUE)
           B == Changed(last, new, FALSE)
           C == ChangedMods(last, new)
           T == [code : Nat, down : BOOLEAN]
<1>1. /\ new.keys \in Seq(Nat) /\ last.keys \in Seq(Nat)
      /\ DOMAIN new.keys = 1 .. Len(new.keys) /\ DOMAIN last.keys = 1 .. Len(last.keys)
      /\ Len(new.keys) \in Nat /\ Len(last.keys) \in Nat
  BY DEF Told
<1>2. \A k : Code(k) \in Nat
  BY KeysAssumption DEF Code
<1>3. /\ DOMAIN Modifiers = 1 .. Len(Modifiers) /\ Len(Modifiers) \in Nat
      /\ \A i \in DOMAIN Modifiers : Modifiers[i] \in [name : STRING, code : Nat \ {0}]
  BY ModifiersAre
<1>4. A \in Seq(T)
  <2>1. \A i \in DOMAIN A : A[i] \in T
    BY <1>2 DEF Changed, Event
  <2>2. A \in [1 .. Len(new.keys) -> T]
    BY <1>1, <2>1 DEF Changed
  <2> HIDE DEF A, T
  <2>3. Len(new.keys) \in Nat
    BY <1>1
  <2>. QED
    BY <2>2, <2>3
<1>5. B \in Seq(T)
  <2>1. \A i \in DOMAIN B : B[i] \in T
    BY <1>2 DEF Changed, Event
  <2>2. B \in [1 .. Len(last.keys) -> T]
    BY <1>1, <2>1 DEF Changed
  <2> HIDE DEF B, T
  <2>3. Len(last.keys) \in Nat
    BY <1>1
  <2>. QED
    BY <2>2, <2>3
<1>6. C \in Seq(T)
  <2>1. \A i \in DOMAIN C : C[i] \in T
    BY <1>3 DEF ChangedMods, Event
  <2>2. DOMAIN C = 1 .. Len(Modifiers)
    BY <1>3 DEF ChangedMods
  <2>. QED
    BY <1>3, <2>1, <2>2 DEF ChangedMods
<1>7. ASSUME NEW d \in BOOLEAN
      PROVE  /\ (\E i \in DOMAIN A : A[i] = Event(code, d))
                  <=> d = TRUE /\ \E k \in Keys(new) \ Keys(last) : Code(k) = code
             /\ (\E i \in DOMAIN B : B[i] = Event(code, d))
                  <=> d = FALSE /\ \E k \in Keys(last) \ Keys(new) : Code(k) = code
             /\ (\E i \in DOMAIN C : C[i] = Event(code, d))
                  <=> \E m \in Range(Modifiers) : /\ m.code = code /\ (m.name \in new.mods <=> d = TRUE)
                                                  /\ ~ (m.name \in last.mods <=> m.name \in new.mods)
  <2>1. \A i \in DOMAIN new.keys :
          A[i] = Event(code, d) <=> /\ d = TRUE /\ new.keys[i] \notin Keys(last) \cup {0}
                                    /\ Code(new.keys[i]) = code
    BY DEF Changed, Event
  <2>2. \A i \in DOMAIN last.keys :
          B[i] = Event(code, d) <=> /\ d = FALSE /\ last.keys[i] \notin Keys(new) \cup {0}
                                    /\ Code(last.keys[i]) = code
    BY DEF Changed, Event
  <2>3. \A i \in DOMAIN Modifiers :
          C[i] = Event(code, d) <=> /\ Modifiers[i].code = code /\ (Modifiers[i].name \in new.mods <=> d = TRUE)
                                    /\ ~ (Modifiers[i].name \in last.mods <=> Modifiers[i].name \in new.mods)
    BY DEF ChangedMods, Event
  <2>4. DOMAIN A = DOMAIN new.keys /\ DOMAIN B = DOMAIN last.keys /\ DOMAIN C = DOMAIN Modifiers
    BY DEF Changed, ChangedMods
  <2>5. \A k : k \in Keys(new) <=> k # 0 /\ \E i \in DOMAIN new.keys : new.keys[i] = k
    BY DEF Keys, Range
  <2>6. \A k : k \in Keys(last) <=> k # 0 /\ \E i \in DOMAIN last.keys : last.keys[i] = k
    BY DEF Keys, Range
  <2>7. \A m : m \in Range(Modifiers) <=> \E i \in DOMAIN Modifiers : Modifiers[i] = m
    BY DEF Range
  <2> HIDE DEF A, B, C
  <2>8. (\E i \in DOMAIN A : A[i] = Event(code, d))
                  <=> d = TRUE /\ \E k \in Keys(new) \ Keys(last) : Code(k) = code
    BY <2>1, <2>4, <2>5
  <2>9. (\E i \in DOMAIN B : B[i] = Event(code, d))
                  <=> d = FALSE /\ \E k \in Keys(last) \ Keys(new) : Code(k) = code
    BY <2>2, <2>4, <2>6
  <2>10. (\E i \in DOMAIN C : C[i] = Event(code, d))
                  <=> \E m \in Range(Modifiers) : /\ m.code = code /\ (m.name \in new.mods <=> d = TRUE)
                                                  /\ ~ (m.name \in last.mods <=> m.name \in new.mods)
    BY <2>3, <2>4, <2>7
  <2>. QED
    BY <2>8, <2>9, <2>10
<1>8. Sent(last, new) = (A \o B) \o C
  BY DEF Sent
<1> HIDE DEF A, B, C, T
<1>9. A \o B \in Seq(T)
  BY <1>4, <1>5
<1>10. \A e : (\E i \in DOMAIN Sent(last, new) : Sent(last, new)[i] = e)
               <=> \/ \E i \in DOMAIN A : A[i] = e
                   \/ \E i \in DOMAIN B : B[i] = e
                   \/ \E i \in DOMAIN C : C[i] = e
  <2> SUFFICES ASSUME NEW e
               PROVE  (\E i \in DOMAIN Sent(last, new) : Sent(last, new)[i] = e)
                        <=> \/ \E i \in DOMAIN A : A[i] = e
                            \/ \E i \in DOMAIN B : B[i] = e
                            \/ \E i \in DOMAIN C : C[i] = e
    OBVIOUS
  <2>1. Range(A \o B) = Range(A) \cup Range(B)
    <3>1. Joined(A, B)
      BY <1>4, <1>5, OneAfterOther
    <3> QED BY <3>1 DEF Joined
  <2>2. Range((A \o B) \o C) = Range(A \o B) \cup Range(C)
    <3>1. Joined(A \o B, C)
      BY <1>6, <1>9, OneAfterOther
    <3> QED BY <3>1 DEF Joined
  <2>3. Range(Sent(last, new)) = Range(A) \cup Range(B) \cup Range(C)
    BY <1>8, <2>1, <2>2
  <2>. QED
    BY <2>3 DEF Range
<1>11. Sent(last, new) \in Seq(T)
  BY <1>6, <1>8, <1>9
<1>12. (\E i \in DOMAIN Sent(last, new) : Sent(last, new)[i] = Event(code, TRUE)) <=> Pressed(last, new, code)
  <2>1. /\ \A i \in DOMAIN B : B[i] # Event(code, TRUE)
        /\ (\E i \in DOMAIN A : A[i] = Event(code, TRUE)) <=> \E k \in Keys(new) \ Keys(last) : Code(k) = code
    BY <1>7
  <2>2. (\E i \in DOMAIN C : C[i] = Event(code, TRUE))
           <=> \E m \in Range(Modifiers) : m.code = code /\ m.name \in new.mods /\ m.name \notin last.mods
    BY <1>7
  <2>. QED
    BY <1>10, <2>1, <2>2 DEF Pressed
<1>13. (\E i \in DOMAIN Sent(last, new) : Sent(last, new)[i] = Event(code, FALSE)) <=> Pressed(new, last, code)
  <2>1. /\ \A i \in DOMAIN A : A[i] # Event(code, FALSE)
        /\ (\E i \in DOMAIN B : B[i] = Event(code, FALSE)) <=> \E k \in Keys(last) \ Keys(new) : Code(k) = code
    BY <1>7
  <2>2. (\E i \in DOMAIN C : C[i] = Event(code, FALSE))
           <=> \E m \in Range(Modifiers) : m.code = code /\ m.name \in last.mods /\ m.name \notin new.mods
    <3>1. (\E i \in DOMAIN C : C[i] = Event(code, FALSE))
            <=> \E m \in Range(Modifiers) : /\ m.code = code /\ (m.name \in new.mods <=> FALSE = TRUE)
                                            /\ ~ (m.name \in last.mods <=> m.name \in new.mods)
      BY <1>7
    <3>. QED
      BY <3>1
  <2>. QED
    BY <1>10, <2>1, <2>2 DEF Pressed
<1>. QED
  BY <1>11, <1>12, <1>13 DEF T

HeldInv == down \subseteq Codes /\ Held

(* What a sequence of calls leaves of code c, held or not.                  *)
Leaves(c, was, S, now) ==
    /\ c \in now =>
          \/ c \in was /\ ~ \E j \in DOMAIN S : S[j] = Event(c, FALSE)
          \/ c \in Nat \ {0} /\ \E j \in DOMAIN S : S[j] = Event(c, TRUE)
    /\ ~ (\E j \in DOMAIN S : S[j] = Event(c, FALSE)) =>
          /\ c \in was => c \in now
          /\ c # 0 /\ (\E j \in DOMAIN S : S[j] = Event(c, TRUE)) => c \in now

LEMMA AfterHas ==
    ASSUME NEW was, NEW S \in Seq([code : Nat, down : BOOLEAN]), NEW c
    PROVE  Leaves(c, was, S, After(was, S))
<1> USE DEF Leaves
<1> DEFINE Released(code, i) == \E j \in DOMAIN S : j > i /\ S[j] = Event(code, FALSE)
           Kept == {x \in was : ~Released(x, 0)}
           Down == {j \in DOMAIN S : S[j].down /\ S[j].code # 0 /\ ~Released(S[j].code, j)}
<1>1. After(was, S) = Kept \cup {S[i].code : i \in Down}
  BY DEF After
<1>2. DOMAIN S = 1 .. Len(S) /\ Len(S) \in Nat
  <2> DEFINE T == [code : Nat, down : BOOLEAN]
  <2>1. S \in Seq(T)
    OBVIOUS
  <2> HIDE DEF T
  <2>. QED
    BY <2>1
<1>3. \A j \in DOMAIN S : S[j].code \in Nat /\ S[j].down \in BOOLEAN /\ S[j] = Event(S[j].code, S[j].down)
  <2> DEFINE T == [code : Nat, down : BOOLEAN]
  <2>1. \A j \in DOMAIN S : S[j] \in T
    <3> HIDE DEF T
    <3>1. S \in Seq(T)
      BY DEF T
    <3>. QED
      BY <3>1
  <2>2. \A x \in T : x.code \in Nat /\ x.down \in BOOLEAN /\ x = Event(x.code, x.down)
    BY DEF Event
  <2>. QED
    BY <2>1, <2>2
<1>4. \A x : Released(x, 0) <=> \E j \in DOMAIN S : S[j] = Event(x, FALSE)
  <2>1. \A j \in DOMAIN S : j > 0
    BY <1>2
  <2>. QED
    BY <2>1
<1>5. \A x : Event(x, TRUE).code = x /\ Event(x, TRUE).down = TRUE
  BY DEF Event
<1> HIDE DEF Released
<1>6. ASSUME c \in After(was, S), c \notin Kept
      PROVE  c \in Nat \ {0} /\ \E j \in DOMAIN S : S[j] = Event(c, TRUE)
  <2>1. PICK i \in Down : c = S[i].code
    BY <1>1, <1>6
  <2>. QED
    BY <1>3, <2>1
<1>7. ASSUME ~ (\E j \in DOMAIN S : S[j] = Event(c, FALSE)), c # 0,
             NEW j \in DOMAIN S, S[j] = Event(c, TRUE)
      PROVE  c \in After(was, S)
  <2>1. S[j].code = c /\ S[j].down
    BY <1>5, <1>7
  <2>2. ~Released(c, j)
    BY <1>7 DEF Released
  <2>. QED
    BY <1>1, <1>7, <2>1, <2>2
<1>. QED
  BY <1>1, <1>4, <1>6, <1>7

LEMMA HeldStep ==
    ASSUME UsbTypeOK, HeldInv, xhci_handle_keyboard_report
    PROVE  HeldInv'
<1>1. CASE failed
  BY <1>1 DEF xhci_handle_keyboard_report, HeldInv, Held
<1>2. CASE ~failed
  <2> DEFINE S == Sent(last_report, buf)
  <2>1. down' = After(down, S) /\ last_report' = buf /\ last_report \in Told /\ buf \in Told
    BY <1>2 DEF xhci_handle_keyboard_report, UsbTypeOK
  <2>2. \A c \in Nat \ {0} :
          /\ (\E i \in DOMAIN S : S[i] = Event(c, TRUE)) <=> Pressed(last_report, buf, c)
          /\ (\E i \in DOMAIN S : S[i] = Event(c, FALSE)) <=> Pressed(buf, last_report, c)
    BY <2>1, CallsAre
  <2>3. S \in Seq([code : Nat, down : BOOLEAN])
    <3>1. 1 \in Nat \ {0}
      OBVIOUS
    <3>. QED
      BY <2>1, <3>1, CallsAre
  <2> HIDE DEF S
  <2>4. \A c : /\ c \in down' =>
                      \/ c \in down /\ ~ \E j \in DOMAIN S : S[j] = Event(c, FALSE)
                      \/ c \in Nat \ {0} /\ \E j \in DOMAIN S : S[j] = Event(c, TRUE)
               /\ ~ (\E j \in DOMAIN S : S[j] = Event(c, FALSE)) =>
                      /\ c \in down => c \in down'
                      /\ c # 0 /\ (\E j \in DOMAIN S : S[j] = Event(c, TRUE)) => c \in down'
    <3>1. \A c : Leaves(c, down, S, After(down, S))
      BY <2>3, AfterHas
    <3> QED BY <2>1, <3>1 DEF Leaves
  <2>5. \A c \in Codes : c \in Nat \ {0}
    <3>1. \A c \in Range(Scancode) : c \in Nat
      BY KeysAssumption DEF Range
    <3>2. \A m \in Range(Modifiers) : m.code \in Nat
      BY ModifiersAre
    <3>. QED
      BY <3>1, <3>2 DEF Codes
  <2>6. \A s, c : s \in Senders(c) <=> \/ \E k \in DOMAIN Scancode : Scancode[k] = c /\ s = <<"key", k>>
                                       \/ \E m \in Range(Modifiers) : m.code = c /\ s = <<"modifier", m.name>>
    BY DEF Senders
  <2>7. \A r, s : s \in Reported(r) <=> \/ \E k \in Keys(r) : s = <<"key", k>>
                                        \/ \E name \in r.mods : s = <<"modifier", name>>
    BY DEF Reported
  <2>8. \A c \in Nat \ {0} : \A k : Code(k) = c <=> (k \in DOMAIN Scancode /\ Scancode[k] = c)
    BY DEF Code
  <2>9. \A c \in Nat \ {0}, r \in Told, q \in Told :
           Pressed(r, q, c) <=> \E s \in Senders(c) : s \in Reported(q) /\ s \notin Reported(r)
    <3> SUFFICES ASSUME NEW c \in Nat \ {0}, NEW r \in Told, NEW q \in Told
                 PROVE  Pressed(r, q, c) <=> \E s \in Senders(c) : s \in Reported(q) /\ s \notin Reported(r)
      OBVIOUS
    <3>1. \A k : <<"key", k>> \in Senders(c) <=> Code(k) = c
      BY <2>6, <2>8
    <3>2. \A t \in {r, q} : \A k : <<"key", k>> \in Reported(t) <=> k \in Keys(t)
      BY <2>7
    <3>3. \A t \in {r, q} : \A name : <<"modifier", name>> \in Reported(t) <=> name \in t.mods
      BY <2>7
    <3>4. \A m \in Range(Modifiers) : m.code = c => <<"modifier", m.name>> \in Senders(c)
      BY <2>6
    <3>5. ASSUME Pressed(r, q, c)
          PROVE  \E s \in Senders(c) : s \in Reported(q) /\ s \notin Reported(r)
      <4>1. ASSUME NEW k \in Keys(q) \ Keys(r), Code(k) = c
            PROVE  \E s \in Senders(c) : s \in Reported(q) /\ s \notin Reported(r)
        <5>1. <<"key", k>> \in Senders(c) /\ <<"key", k>> \in Reported(q) /\ <<"key", k>> \notin Reported(r)
          BY <3>1, <3>2, <4>1
        <5>. QED
          BY <5>1
      <4>2. ASSUME NEW m \in Range(Modifiers), m.code = c, m.name \in q.mods, m.name \notin r.mods
            PROVE  \E s \in Senders(c) : s \in Reported(q) /\ s \notin Reported(r)
        <5>1. /\ <<"modifier", m.name>> \in Senders(c) /\ <<"modifier", m.name>> \in Reported(q)
              /\ <<"modifier", m.name>> \notin Reported(r)
          BY <3>3, <3>4, <4>2
        <5>. QED
          BY <5>1
      <4>. QED
        BY <3>5, <4>1, <4>2 DEF Pressed
    <3>6. ASSUME NEW s \in Senders(c), s \in Reported(q), s \notin Reported(r)
          PROVE  Pressed(r, q, c)
      <4>1. CASE \E k \in DOMAIN Scancode : Scancode[k] = c /\ s = <<"key", k>>
        <5>1. PICK k \in DOMAIN Scancode : Scancode[k] = c /\ s = <<"key", k>>
          BY <4>1
        <5>2. k \in Keys(q) /\ k \notin Keys(r) /\ Code(k) = c
          BY <5>1, <3>2, <3>6, <2>8
        <5>. QED
          BY <5>2 DEF Pressed
      <4>2. CASE \E m \in Range(Modifiers) : m.code = c /\ s = <<"modifier", m.name>>
        <5>1. PICK m \in Range(Modifiers) : m.code = c /\ s = <<"modifier", m.name>>
          BY <4>2
        <5>2. m.name \in q.mods /\ m.name \notin r.mods
          BY <5>1, <3>3, <3>6
        <5>. QED
          BY <5>1, <5>2 DEF Pressed
      <4>. QED
        BY <4>1, <4>2, <2>6
    <3>. QED
      BY <3>5, <3>6
  <2>10. \A c \in Nat \ {0} : Senders(c) # {} => c \in Codes
    BY <2>6 DEF Codes, Range
  <2>11. \A c \in down' : c \in Codes /\ Senders(c) \cap Reported(buf) # {}
    <3> SUFFICES ASSUME NEW c \in down'
                 PROVE  c \in Codes /\ Senders(c) \cap Reported(buf) # {}
      OBVIOUS
    <3>1. CASE c \in down /\ ~ \E j \in DOMAIN S : S[j] = Event(c, FALSE)
      <4>1. c \in Codes /\ c \in Nat \ {0} /\ Senders(c) \cap Reported(last_report) # {}
        BY <3>1, <2>5 DEF HeldInv, Held
      <4>2. ~ Pressed(buf, last_report, c)
        BY <3>1, <4>1, <2>2
      <4>. QED
        BY <4>1, <4>2, <2>1, <2>9
    <3>2. CASE c \in Nat \ {0} /\ \E j \in DOMAIN S : S[j] = Event(c, TRUE)
      <4>1. Pressed(last_report, buf, c)
        BY <3>2, <2>2
      <4>. QED
        BY <3>2, <4>1, <2>1, <2>9, <2>10
    <3>. QED
      BY <3>1, <3>2, <2>4
  <2>12. \A s \in Reported(buf), c \in Codes : Senders(c) = {s} => c \in down'
    <3> SUFFICES ASSUME NEW s \in Reported(buf), NEW c \in Codes, Senders(c) = {s}
                 PROVE  c \in down'
      OBVIOUS
    <3>1. c \in Nat \ {0}
      BY <2>5
    <3>2. ~ Pressed(buf, last_report, c)
      BY <3>1, <2>1, <2>9
    <3>3. ~ \E j \in DOMAIN S : S[j] = Event(c, FALSE)
      BY <3>1, <3>2, <2>2
    <3>4. CASE s \in Reported(last_report)
      BY <3>3, <3>4, <2>4 DEF HeldInv, Held
    <3>5. CASE s \notin Reported(last_report)
      <4>1. Pressed(last_report, buf, c)
        BY <3>1, <3>5, <2>1, <2>9
      <4>. QED
        BY <3>1, <3>3, <4>1, <2>2, <2>4
    <3>. QED
      BY <3>4, <3>5
  <2>. QED
    BY <2>1, <2>11, <2>12 DEF HeldInv, Held
<1>. QED
  BY <1>1, <1>2

LEMMA HeldStart == UsbInit => HeldInv
BY DEF UsbInit, HeldInv, Held, Reported, NoKeys, Keys, Range

(* While one device is plugged in, the rings are as UsbInv says.            *)
UsbSafe == OneDevice => UsbInv /\ HeldInv

LEMMA UsbAlways == UsbSpec => []UsbSafe
<1>1. UsbInit => UsbSafe
  BY UsbStart, HeldStart DEF UsbSafe
<1>2. UsbSafe /\ [UsbNext]_usbVars => UsbSafe'
  <2> SUFFICES ASSUME UsbInv, HeldInv, OneDevice, [UsbNext]_usbVars
               PROVE  UsbInv' /\ HeldInv'
    BY DEF UsbSafe, OneDevice
  <2>1. CASE xhci_handle_keyboard_report
    BY <2>1, UsbStep, HeldStep DEF UsbInv
  <2>2. CASE ~xhci_handle_keyboard_report
    <3>1. UNCHANGED <<down, last_report>>
      BY <2>2 DEF UsbNext, UsbDriver, usbVars, driver, controller, Send, Wait, TimeOut, ResetPort, PortIsReset, Listen,
                  Booted, Irq, Drain, Drained, Requeued, HcAnswer, HcPortReset, HcReport
    <3>. QED
      BY <3>1, UsbStep DEF HeldInv, Held
  <2>. QED
    BY <2>1, <2>2
<1>. QED
  BY <1>1, <1>2, PTL DEF UsbSpec

(* While the controller reports, endpoint 1 has its one transfer until its   *)
(* ring is used up (xhci.c:486), and the keys the keyboard driver was told   *)
(* are down are those of the last report (xhci.c:32), whatever the reports.  *)
THEOREM KeyboardIsFollowed == UsbSpec => [](OneDevice => Followed)
<1>1. UsbSafe => (OneDevice => Followed)
  BY DEF UsbSafe, UsbInv, XferInv, HeldInv, Followed, Armed
<1>. QED
  BY <1>1, UsbAlways, PTL

(* An answer that xhci_wait_for_event takes (xhci.c:437) is the answer to    *)
(* the last question, whatever failed before and whatever else came.         *)
THEOREM AnswersAreOwn ==
    ASSUME OneDevice
    PROVE  UsbSpec => OwnAnswer
<1>1. UsbSafe /\ [UsbNext]_usbVars => [taken' # taken => taken' = n]_usbVars
  <2> SUFFICES ASSUME UsbSafe, UsbNext, taken' # taken
               PROVE  taken' = n
    OBVIOUS
  <2>1. Wait
    BY DEF UsbNext, UsbDriver, driver, Send, Wait, TimeOut, ResetPort, PortIsReset, Listen,
           Booted, Irq, Drain, Drained, xhci_handle_keyboard_report, Requeued, HcAnswer, HcPortReset, HcReport
  <2>. QED
    BY <2>1, AnswerIsOwn DEF UsbSafe
<1>. QED
  BY <1>1, UsbAlways, PTL DEF UsbSpec, OwnAnswer
=============================================================================
