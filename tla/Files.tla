-------------------------------- MODULE Files -------------------------------
(***************************************************************************)
(* What vfs.h promises: files found by name, read in order from a position  *)
(* that a seek sets.  While the device works every answer is exact; once it *)
(* has failed, an answer may be an error, or a read may fall short, but the *)
(* bytes it does return are the file's, at the position.                    *)
(***************************************************************************)
EXTENDS Integers, Sequences

CONSTANTS Handles, Paths, Counts, Offsets

VARIABLES volume,        \* the files on the disk, path -> [bytes, size]
          catalogue,     \* those that can be found: none before the mount
          handles,       \* handle -> [file, pos], Closed
          healthy,       \* no read of the device has failed
          answer         \* [op, arg, ok, h, bytes] of the last call, NoAnswer

vars == <<volume, catalogue, handles, healthy, answer>>

Closed == [open |-> FALSE]
NoFile == [bytes |-> <<>>, size |-> 0]
NoAnswer == [op |-> "none"]
Answer(op, arg, ok, h, bytes) == [op |-> op, arg |-> arg, ok |-> ok, h |-> h, bytes |-> bytes]
At(file, pos) == [open |-> TRUE, file |-> file, pos |-> pos]
Least(a, b) == IF a < b THEN a ELSE b

Init ==
    /\ catalogue = [p \in {} |-> NoFile]
    /\ handles = [h \in Handles |-> Closed]
    /\ healthy = TRUE
    /\ answer = NoAnswer

(* The device may fail during the call.                                    *)
Still == UNCHANGED <<volume, catalogue>> /\ healthy' \in {healthy, FALSE}

Mount == catalogue' = volume /\ UNCHANGED <<volume, handles, healthy, answer>>

Ask == answer' = NoAnswer /\ UNCHANGED <<volume, catalogue, handles, healthy>>
Fault == healthy' = FALSE /\ UNCHANGED <<volume, catalogue, handles, answer>>

(* The answer is to this call.                                             *)
Answers(op, arg, h) == answer'.op = op /\ answer' = Answer(op, arg, answer'.ok, h, answer'.bytes)

Open(p) ==
    /\ answer'.op = "open"
    /\ \/ \E h \in Handles :
            /\ answer' = Answer("open", p, TRUE, h, <<>>)
            /\ p \in DOMAIN catalogue /\ handles[h] = Closed
            /\ handles' = [handles EXCEPT ![h] = At(catalogue[p], 0)]
       \/ /\ answer' = Answer("open", p, FALSE, -1, <<>>)
          /\ p \notin DOMAIN catalogue \/ (\A h \in Handles : handles[h] # Closed) \/ ~healthy'
          /\ UNCHANGED handles
    /\ Still

(* A call with a handle that is not open fails.                            *)
Invalid(op, h, arg) ==
    /\ Answers(op, arg, h) /\ ~answer'.ok /\ answer'.bytes = <<>>
    /\ handles[h] = Closed
    /\ UNCHANGED handles /\ Still

(* A read past the end of a damaged file returns nothing.                   *)
Read(h, n) ==
    LET file == handles[h].file
        pos == handles[h].pos
        last == Least(pos + n, Len(file.bytes))
        k == handles'[h].pos
    IN  /\ Answers("read", n, h)
        /\ handles[h] # Closed
        /\ handles' = [handles EXCEPT ![h].pos = k]
        /\ IF ~answer'.ok THEN ~healthy' /\ k \in pos .. last /\ answer'.bytes = <<>>
           ELSE IF last < pos THEN k = pos /\ answer'.bytes = <<>>
           ELSE /\ k \in pos .. last /\ (healthy' => k = last)
                /\ answer'.bytes = SubSeq(file.bytes, pos + 1, k)
        /\ Still

Seek(h, o) ==
    /\ answer' = Answer("seek", o, TRUE, h, <<>>)
    /\ handles[h] # Closed
    /\ handles' = [handles EXCEPT ![h].pos = Least(o, handles[h].file.size)]
    /\ Still

Close(h) ==
    /\ answer' = Answer("close", 0, TRUE, h, <<>>)
    /\ handles[h] # Closed
    /\ handles' = [handles EXCEPT ![h] = Closed]
    /\ Still

Next ==
    \/ Mount \/ Ask \/ Fault
    \/ \E p \in Paths : Open(p)
    \/ \E h \in Handles :
        \/ \E n \in Counts : Read(h, n) \/ Invalid("read", h, n)
        \/ \E o \in Offsets : Seek(h, o) \/ Invalid("seek", h, o)
        \/ Close(h) \/ Invalid("close", h, 0)

Spec == Init /\ [][Next]_vars
=============================================================================
