-------------------------------- MODULE Block -------------------------------
(***************************************************************************)
(* The ATA driver, block.c, and the drive it polls: the second drive of the *)
(* primary controller, of any kind.  Driver and drive take turns in any     *)
(* order; a wait ends without an answer when the drive hangs, and, if Late, *)
(* before a slow one has answered.  The content of a sector is its number.  *)
(***************************************************************************)
EXTENDS Integers, Sequences

CONSTANTS Kinds,         \* what may be attached: "ata", "nolba", "atapi", "none"
          BYTE,          \* values of a register
          NIBBLE,        \* values of the address bits in the drive register
          COUNTS,        \* values of the count register (256)
          Lbas, Counts,  \* what callers ask for
          Faults,        \* how often the drive may fail or hang
          Late           \* may a drive be slower than the driver waits?

ASSUME BlockAssumption ==
    /\ Kinds \subseteq {"ata", "nolba", "atapi", "none"}
    /\ {BYTE, NIBBLE, COUNTS} \subseteq Nat \ {0}
    /\ Lbas \subseteq Nat /\ Counts \subseteq Nat /\ Faults \in Nat

VARIABLES kind,
          drive,         \* the drive: state, command in progress, data port
          regs,          \* its registers
          present,       \* ata_drive_present
          op,            \* the call in progress
          ret,           \* what the last call returned and what it had put in dst
          faults

vars == <<kind, drive, regs, present, op, ret, faults>>

(* A device that is not there answers 0 to everything.                      *)
Resting == IF kind = "none" THEN "absent" ELSE "idle"
NoRegs == [dev |-> 0, lba4 |-> 0, count |-> 0, lo |-> 0, mid |-> 0, hi |-> 0]
NoOp == [pc |-> "idle"]
NoRet == [op |-> "none"]

Init ==
    /\ kind \in Kinds
    /\ drive = [state |-> Resting, todo |-> <<>>]
    /\ regs = NoRegs
    /\ present = FALSE
    /\ op = [pc |-> "reset"]
    /\ ret = NoRet /\ faults = Faults

Return(ok) ==
    /\ op' = NoOp
    /\ ret' = [op |-> op.op, ok |-> ok, lba |-> op.lba, count |-> op.count, dst |-> op.dst]

Goto(pc) == op' = [op EXCEPT !.pc = pc] /\ UNCHANGED ret

(* The status register, as the driver's waits look at it.                   *)
Busy == drive.state \in {"busy", "hung"}
Drq == drive.state = "drq"
Failed == drive.state = "error"
-----------------------------------------------------------------------------
(* The drive.                                                              *)
Space == NIBBLE * BYTE * BYTE * BYTE
Address == regs.lo + BYTE * (regs.mid + BYTE * (regs.hi + BYTE * regs.lba4))
Sectors == LET n == IF regs.count = 0 THEN COUNTS ELSE regs.count
           IN  [i \in 1 .. n |-> Address + i - 1]

(* A command is taken by a drive that is neither busy nor in the middle of  *)
(* a transfer; another one drops it.                                       *)
Execute(d, cmd) ==
    IF d.state \notin {"idle", "error"} THEN d
    ELSE IF cmd = "read" THEN [state |-> "busy", todo |-> Sectors]
    ELSE IF kind = "atapi" THEN [state |-> "error", todo |-> <<>>]
    ELSE [state |-> "busy", todo |-> <<"id">>]

DriveReady ==
    /\ drive.state = "busy"
    /\ drive' = [drive EXCEPT !.state = IF drive.todo = <<>> THEN Resting ELSE "drq"]
    /\ UNCHANGED faults

DriveFails ==
    /\ drive.state = "busy" /\ faults > 0
    /\ drive' \in {[state |-> "error", todo |-> <<>>], [drive EXCEPT !.state = "hung"]}
    /\ faults' = faults - 1

Drive == (DriveReady \/ DriveFails) /\ UNCHANGED <<kind, regs, present, op, ret>>

(* insw of one sector: the drive goes on to the next.                      *)
Taken == [state |-> IF Len(drive.todo) > 1 THEN "busy" ELSE Resting, todo |-> Tail(drive.todo)]
-----------------------------------------------------------------------------
(* The two waits: an answer, an error, or the end of patience.             *)
GivesUp == drive.state = "hung" \/ (Late /\ drive.state = "busy")

ata_wait_ready(next) ==
    \/ ~Busy /\ Goto(next)
    \/ GivesUp /\ Return(FALSE)

ata_wait_drq(next) ==
    \/ Drq /\ Goto(next)
    \/ Failed /\ Return(FALSE)
    \/ (GivesUp \/ (~Busy /\ ~Drq /\ ~Failed)) /\ Return(FALSE)

Still == UNCHANGED <<kind, present, faults>>

(* block_init: reset, select the second drive, identify it.                 *)
ResetDrive ==
    /\ op.pc = "reset"
    /\ drive' = [state |-> IF kind = "none" THEN "absent" ELSE "busy", todo |-> <<>>]
    /\ regs' = [NoRegs EXCEPT !.dev = 1]
    /\ op' = [pc |-> "init_ready", op |-> "init", lba |-> 0, count |-> 0, dst |-> <<>>]
    /\ ret' = NoRet /\ Still

InitReady == op.pc = "init_ready" /\ ata_wait_ready("identify") /\ UNCHANGED <<drive, regs>> /\ Still

Identify ==
    /\ op.pc = "identify"
    /\ LET r == [regs EXCEPT !.count = 0, !.lo = 0, !.mid = 0, !.hi = 0]
       IN  /\ drive' = Execute(drive, "identify")
           /\ regs' = IF kind = "atapi" THEN [r EXCEPT !.mid = 1] ELSE r
    /\ IF drive'.state = "absent" THEN Return(FALSE) ELSE Goto("id_ready")
    /\ Still

IdReady == op.pc = "id_ready" /\ ata_wait_ready("id_check") /\ UNCHANGED <<drive, regs>> /\ Still

IdCheck ==
    /\ op.pc = "id_check"
    /\ IF regs.mid # 0 \/ regs.hi # 0 THEN Return(FALSE) ELSE Goto("id_drq")
    /\ UNCHANGED <<drive, regs>> /\ Still

IdDrq == op.pc = "id_drq" /\ ata_wait_drq("id_data") /\ UNCHANGED <<drive, regs>> /\ Still

(* A slip: the answer is not read to the end.                              *)
IdData_Unread ==
    /\ op.pc = "id_data"
    /\ present' = (kind # "nolba")
    /\ Return(kind # "nolba")
    /\ UNCHANGED <<kind, regs, faults, drive>>

IdData ==
    /\ op.pc = "id_data"
    /\ drive' = Taken
    /\ present' = (kind # "nolba")
    /\ Return(kind # "nolba")
    /\ UNCHANGED <<kind, regs, faults>>
-----------------------------------------------------------------------------
(* block_read                                                              *)
Refused(lba, count) == ~present \/ lba >= Space \/ count = 0 \/ count > COUNTS

Read(lba, count) ==
    /\ op = NoOp
    /\ IF Refused(lba, count)
         THEN /\ ret' = [op |-> "read", ok |-> FALSE, lba |-> lba, count |-> count, dst |-> <<>>]
              /\ UNCHANGED op
         ELSE /\ op' = [pc |-> "ready", op |-> "read", lba |-> lba, count |-> count, dst |-> <<>>]
              /\ ret' = NoRet
    /\ UNCHANGED <<drive, regs>> /\ Still

Ready == op.pc = "ready" /\ ata_wait_ready("command") /\ UNCHANGED <<drive, regs>> /\ Still

(* A slip: the address bits in the drive register stay what they were.      *)
Addressed_NoTop(lba, count) ==
    [regs EXCEPT !.dev = 1, !.count = count % COUNTS, !.lo = lba % BYTE,
                 !.mid = (lba \div BYTE) % BYTE, !.hi = (lba \div (BYTE * BYTE)) % BYTE]

Addressed(lba, count) ==
    [dev |-> 1, lba4 |-> (lba \div (BYTE * BYTE * BYTE)) % NIBBLE, count |-> IF count = COUNTS THEN 0 ELSE count,
     lo |-> lba % BYTE, mid |-> (lba \div BYTE) % BYTE, hi |-> (lba \div (BYTE * BYTE)) % BYTE]

(* The registers are written, then the command.                            *)
Command ==
    /\ op.pc = "command"
    /\ regs' = Addressed(op.lba, op.count)
    /\ op' = [op EXCEPT !.pc = "issue"]
    /\ UNCHANGED <<drive, ret>> /\ Still

Issue ==
    /\ op.pc = "issue"
    /\ drive' = Execute(drive, "read")
    /\ Goto("drq")
    /\ UNCHANGED regs /\ Still

WaitData == op.pc = "drq" /\ ata_wait_drq("data") /\ UNCHANGED <<drive, regs>> /\ Still

Transfer ==
    /\ op.pc = "data"
    /\ drive' = Taken
    /\ LET o == [op EXCEPT !.dst = Append(@, Head(drive.todo)), !.pc = "drq"]
       IN  IF Len(o.dst) = op.count
             THEN /\ op' = NoOp
                  /\ ret' = [op |-> "read", ok |-> TRUE, lba |-> op.lba, count |-> op.count, dst |-> o.dst]
             ELSE op' = o /\ UNCHANGED ret
    /\ UNCHANGED regs /\ Still

Driver == \/ ResetDrive \/ InitReady \/ Identify \/ IdReady \/ IdCheck \/ IdDrq \/ IdData
          \/ Ready \/ Command \/ Issue \/ WaitData \/ Transfer

Next == Drive \/ Driver \/ \E lba \in Lbas, n \in Counts : Read(lba, n)

Spec == Init /\ [][Next]_vars
-----------------------------------------------------------------------------
(* A read that succeeds has put into dst the count sectors from lba on, in  *)
(* order, and nothing left over from another call; and without a fault a    *)
(* call answers as its drive and its arguments deserve: only an ATA drive   *)
(* with LBA is found, every legal read succeeds ("Returns 0 on success",    *)
(* include/block.h:54).                                                     *)
Whole == ret.op = "read" /\ ret.ok => ret.dst = [i \in 1 .. ret.count |-> ret.lba + i - 1]
Exact ==
    faults = Faults =>
        /\ ret.op = "init" => ret.ok = (kind = "ata")
        /\ ret.op = "read" => ret.ok = (kind = "ata" /\ ret.lba < Space /\ ret.count \in 1 .. COUNTS)
Faithful == Whole /\ Exact

(* Between two calls of a drive that answers, no data waits at its port.    *)
NothingPending == op = NoOp /\ ~Busy => ~Drq

=============================================================================
