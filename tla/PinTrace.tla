------------------------------ MODULE PinTrace ------------------------------
(***************************************************************************)
(* The Pin tool that records the example traces (pinatrace.cpp), at work   *)
(* in the threads of the recorded program.  Pin calls its functions before *)
(* and after the instructions of a thread, in that thread.  The address a  *)
(* store writes to is known only before it, the record is made after it,   *)
(* and in between it is kept in the globals WriteAddr and WriteSize.  The  *)
(* calls before an instruction are predicated, the one after it is not.    *)
(*                                                                         *)
(* One call is one step, and writes a whole line: that threads which write *)
(* to the stream at once may tear each other's lines is left out.  So are  *)
(* the sizes and the values of the accesses, which the tool records and    *)
(* nothing reads.                                                          *)
(***************************************************************************)
EXTENDS Integers, SequencesExt

CONSTANTS
  Threads,       \* the threads of the recorded program
  MainThread,    \* the one whose end is the program's
  Addresses,     \* the addresses the program accesses
  Codes          \* the instructions a thread may execute

(* An instruction reads from none, one or two addresses, and may write to  *)
(* one; but a conditional move whose condition is false and a repeated     *)
(* string operation whose count is zero do not, they are not executed.     *)
Instructions ==
  [ip : Nat, reads : Seq(Addresses), writes : SUBSET Addresses,
   executed : BOOLEAN]

(* Who writes the lines of the trace that record no access. *)
NoThread == "none"

ASSUME PinTraceAssumption ==
  /\ MainThread \in Threads /\ NoThread \notin Threads
  /\ Addresses \subseteq Nat
  /\ Codes \subseteq Seq(Instructions)
  /\ \A code \in Codes : \A n \in DOMAIN code :
       \A a, b \in code[n].writes : a = b

VARIABLES
  code,        \* what each thread executes
  pc,          \* the instruction each thread is at
  calls,       \* how many functions have been called for that instruction
  WriteAddr,   \* pinatrace's global
  TraceFile,   \* the lines written to pinatrace.out
  closed       \* whether Fini() has been called

vars == <<code, pc, calls, WriteAddr, TraceFile, closed>>

-----------------------------------------------------------------------------

(* A line of pinatrace.out, as awk splits it into fields: the numbers in   *)
(* the first and the third, the word in the second.  thread is a history:  *)
(* the file does not tell.  A field without a number counts as 0.          *)
Record(t, ip, r, addr) == [ip |-> ip, op |-> r, addr |-> addr, thread |-> t]

trace_header ==
  <<Record(NoThread, 0, "", 0), Record(NoThread, 0, "Memory", 0),
    Record(NoThread, 0, "", 0)>>

trace_footer == <<Record(NoThread, 0, "", 0)>>

Init ==
  /\ code \in [Threads -> Codes]
  /\ pc = [t \in Threads |-> 1]
  /\ calls = [t \in Threads |-> 0]
  /\ WriteAddr = 0
  /\ TraceFile = trace_header
  /\ closed = FALSE

Finished(t) == pc[t] > Len(code[t])

Instruction(t) == code[t][pc[t]]

(* The operands the calls before an instruction are made for: those calls  *)
(* are predicated, they come only if it is executed.                       *)
Reads(ins)  == IF ins.executed THEN ins.reads ELSE <<>>
Stores(ins) == IF ins.executed THEN ins.writes ELSE {}

(* Faulty variant: the file stays open for the threads that go on. *)
Calls_afterFini(t) == ~Finished(t)

(* Pin calls pinatrace in t; what comes after the end is not written. *)
Calls(t) == ~closed /\ ~Finished(t)

(* Faulty variant: the call is made whether the load is executed or not. *)
RecordMem_unpredicated(t) ==
  /\ Calls(t) /\ calls[t] < Len(Instruction(t).reads)
  /\ TraceFile' = Append(TraceFile, Record(t, Instruction(t).ip, "R",
                                      Instruction(t).reads[calls[t] + 1]))
  /\ calls' = [calls EXCEPT ![t] = @ + 1]
  /\ UNCHANGED <<code, pc, WriteAddr, closed>>

(* Before an instruction that reads: one call for each operand. *)
RecordMem(t) ==
  /\ Calls(t) /\ calls[t] < Len(Reads(Instruction(t)))
  /\ TraceFile' = Append(TraceFile, Record(t, Instruction(t).ip, "R",
                                      Reads(Instruction(t))[calls[t] + 1]))
  /\ calls' = [calls EXCEPT ![t] = @ + 1]
  /\ UNCHANGED <<code, pc, WriteAddr, closed>>

(* Faulty variant: an address is kept until it has been recorded once. *)
RecordWriteAddrSize_keepsFirst(t) ==
  /\ Calls(t) /\ calls[t] = Len(Reads(Instruction(t)))
  /\ Stores(Instruction(t)) # {}
  /\ IF WriteAddr = 0 THEN WriteAddr' \in Stores(Instruction(t))
                     ELSE UNCHANGED WriteAddr
  /\ calls' = [calls EXCEPT ![t] = @ + 1]
  /\ UNCHANGED <<code, pc, TraceFile, closed>>

(* Before an instruction that writes, after the calls for its reads. *)
RecordWriteAddrSize(t) ==
  /\ Calls(t) /\ calls[t] = Len(Reads(Instruction(t)))
  /\ WriteAddr' \in Stores(Instruction(t))
  /\ calls' = [calls EXCEPT ![t] = @ + 1]
  /\ UNCHANGED <<code, pc, TraceFile, closed>>

NextInstruction(t) ==
  /\ pc' = [pc EXCEPT ![t] = @ + 1]
  /\ calls' = [calls EXCEPT ![t] = 0]

(* After an instruction with a store, fallen through or taken as a branch. *)
(* This call is not predicated: if the store was not executed, it is the   *)
(* only one, and finds in WriteAddr what another store has left there.     *)
RecordMemWrite(t) ==
  /\ Calls(t) /\ Instruction(t).writes # {}
  /\ calls[t] = IF Instruction(t).executed
                  THEN Len(Reads(Instruction(t))) + 1 ELSE 0
  /\ TraceFile' = Append(TraceFile,
                    Record(t, Instruction(t).ip, "W", WriteAddr))
  /\ NextInstruction(t)
  /\ UNCHANGED <<code, WriteAddr, closed>>

(* There is no call after an instruction without a store. *)
NoStore(t) ==
  /\ Calls(t) /\ calls[t] = Len(Reads(Instruction(t)))
  /\ Instruction(t).writes = {}
  /\ NextInstruction(t)
  /\ UNCHANGED <<code, WriteAddr, TraceFile, closed>>

(* The program exits, with its other threads wherever they are. *)
Fini ==
  /\ ~closed /\ Finished(MainThread)
  /\ TraceFile' = TraceFile \o trace_footer
  /\ closed' = TRUE
  /\ UNCHANGED <<code, pc, calls, WriteAddr>>

ThreadStep(t) ==
  RecordMem(t) \/ RecordWriteAddrSize(t) \/ RecordMemWrite(t) \/ NoStore(t)

Exited == closed /\ UNCHANGED vars

Next == (\E t \in Threads : ThreadStep(t)) \/ Fini \/ Exited

Spec == Init /\ [][Next]_vars

-----------------------------------------------------------------------------
(* Properties *)

(* The lines due for an instruction.  A store that is not executed has one *)
(* too, without an address of its own: it records no access.               *)
NoAddress == -1

DueOf(t, ins) ==
  [k \in DOMAIN Reads(ins) |-> Record(t, ins.ip, "R", Reads(ins)[k])]
    \o SetToSeq({Record(t, ins.ip, "W",
                        IF ins.executed THEN a ELSE NoAddress) :
                   a \in ins.writes})

Due(t) == FlattenSeq([n \in DOMAIN code[t] |-> DueOf(t, code[t][n])])

(* The lines that t has written. *)
Recorded(t) ==
  FlattenSeq([k \in DOMAIN TraceFile |->
    IF TraceFile[k].thread = t THEN <<TraceFile[k]>> ELSE <<>>])

(* "For each (dynamic) instruction reading or writing to memory the the ip *)
(* and ea are recorded" (pinatrace.cpp:62): of a program of one thread the *)
(* trace has every access so far, in their order, at their addresses.      *)
(* What it has too much is one "W" for each store that was not executed.   *)
SingleThreadAccessesAreExact ==
  (\A t \in Threads \ {MainThread} : code[t] = <<>>) =>
    /\ Len(Recorded(MainThread)) <= Len(Due(MainThread))
    /\ closed => Len(Recorded(MainThread)) = Len(Due(MainThread))
    /\ \A k \in DOMAIN Recorded(MainThread) :
         LET line == Recorded(MainThread)[k]
             due  == Due(MainThread)[k]
         IN  IF due.addr = NoAddress THEN line.op = due.op /\ line.ip = due.ip
                                     ELSE line = due

(* t has executed a store to a, or is about to. *)
StoredTo(t, a) ==
  \E n \in DOMAIN code[t] : n <= pc[t] /\ a \in Stores(code[t][n])

(* With several threads a store may be recorded with the address of        *)
(* another thread's store, but with nothing else: instructions, kinds of   *)
(* access and the addresses of reads are recorded, in each thread's order. *)
(* A store that was not executed is recorded with what WriteAddr happens   *)
(* to hold: the address of a store of any thread, or 0.                    *)
OnlyStoresAreMixedUp ==
  \A t \in Threads :
    /\ Len(Recorded(t)) <= Len(Due(t))
    /\ \A k \in DOMAIN Recorded(t) :
         LET line == Recorded(t)[k]
             due  == Due(t)[k]
         IN  \/ line = due
             \/ /\ line.op = "W" /\ due.op = "W" /\ line.ip = due.ip
                /\ \/ \E u \in Threads \ {t} : StoredTo(u, line.addr)
                   \/ /\ due.addr = NoAddress
                      /\ line.addr = 0 \/ StoredTo(t, line.addr)

(* A closed trace has the shape real.sh expects: three lines of header and *)
(* one of footer around the records.                                       *)
TraceIsFramed ==
  closed =>
    /\ SubSeq(TraceFile, 1, 3) = trace_header
    /\ Last(TraceFile).thread = NoThread
    /\ \A k \in 4 .. Len(TraceFile) - 1 : TraceFile[k].op \in {"R", "W"}
=============================================================================
