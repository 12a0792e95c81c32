--------------------------- MODULE PinTraceProofs ---------------------------
(***************************************************************************)
(* Proofs about the recorder, for any number of threads and any code they  *)
(* execute.                                                                *)
(*                                                                         *)
(* The lines of a thread are, at any time, those due so far, but for the   *)
(* addresses of stores (RecordInv); those are right too for the stores     *)
(* that are executed, if no other thread records one (WriteAddrInv).       *)
(***************************************************************************)
EXTENDS PinTrace, SequenceLemmas, FiniteSetTheorems

Lines ==
  [ip : Nat, op : {"R", "W", "Memory", ""}, addr : Nat \cup {NoAddress},
   thread : Threads \cup {NoThread}]

(* The lines due for each instruction of t, and all before the n-th. *)
DueLists(t) == [n \in DOMAIN code[t] |-> DueOf(t, code[t][n])]

Before(t, n) == FlattenSeq(SubSeq(DueLists(t), 1, n - 1))

(* The lines that are due from t when it is at instruction p and has made  *)
(* c calls for it.                                                         *)
SoFarAt(t, p, c) ==
  IF p > Len(code[t])
    THEN Due(t)
    ELSE Before(t, p) \o
           SubSeq(DueOf(t, code[t][p]), 1,
                  IF c <= Len(Reads(code[t][p]))
                    THEN c ELSE Len(Reads(code[t][p])))

SoFar(t) == SoFarAt(t, pc[t], calls[t])

(* Another thread has executed a store to a, or is about to. *)
OtherStore(t, a) == \E u \in Threads \ {t} : StoredTo(u, a)

(* Some thread has, or a is what WriteAddr held at the start. *)
Stale(a) == a = 0 \/ \E u \in Threads : StoredTo(u, a)

(* What may be recorded for a line that is due: itself, or a store mixed   *)
(* up, or for a store that was not executed a stale address.               *)
MixedUp(t, line, due) ==
  \/ line = due
  \/ /\ line.op = "W" /\ due.op = "W" /\ line.ip = due.ip
     /\ OtherStore(t, line.addr) \/ (due.addr = NoAddress /\ Stale(line.addr))

(* t has passed its address to WriteAddr, and has not made the record. *)
Storing(t) == ~Finished(t) /\ calls[t] = Len(Reads(Instruction(t))) + 1

TypeInv ==
  /\ code \in [Threads -> Codes]
  /\ pc \in [Threads -> Nat \ {0}]
  /\ calls \in [Threads -> Nat]
  /\ WriteAddr \in Nat
  /\ TraceFile \in Seq(Lines)
  /\ closed \in BOOLEAN

(* Where the threads are. *)
ProgressOf(t) ==
  /\ pc[t] <= Len(code[t]) + 1
  /\ Finished(t) => calls[t] = 0
  /\ ~Finished(t) => calls[t] <= Len(Reads(Instruction(t))) + 1
  /\ Storing(t) => Stores(Instruction(t)) # {}

ProgressInv ==
  /\ \A t \in Threads : ProgressOf(t)
  /\ closed => Finished(MainThread)

(* The address of a store is the thread's own, or that of another thread's *)
(* store, which has overwritten it.                                        *)
WriteAddrInv ==
  /\ Stale(WriteAddr)
  /\ \A t \in Threads : Storing(t) =>
       WriteAddr \in Stores(Instruction(t)) \/ OtherStore(t, WriteAddr)

(* t has recorded what was due, and in its order. *)
RecordOf(t) ==
  /\ Len(Recorded(t)) = Len(SoFar(t))
  /\ \A k \in 1 .. Len(SoFar(t)) : MixedUp(t, Recorded(t)[k], SoFar(t)[k])

RecordInv == \A t \in Threads : RecordOf(t)

(* The header comes first, and the footer when the file is closed. *)
FrameInv ==
  /\ Len(TraceFile) >= 3
  /\ \A k \in 1 .. 3 : TraceFile[k] = trace_header[k]
  /\ closed => Len(TraceFile) >= 4 /\ TraceFile[Len(TraceFile)].thread = NoThread
  /\ \A k \in 4 .. Len(TraceFile) :
       \/ TraceFile[k].op \in {"R", "W"}
       \/ closed /\ k = Len(TraceFile)

IInv == TypeInv /\ ProgressInv /\ WriteAddrInv /\ RecordInv /\ FrameInv

-----------------------------------------------------------------------------
(* The lines due for an instruction *)

LEMMA Operands ==
  ASSUME NEW ins \in Instructions
  PROVE  /\ Reads(ins) \in Seq(Addresses) /\ Len(Reads(ins)) \in Nat
         /\ Stores(ins) \subseteq ins.writes /\ ins.writes \subseteq Nat
<1>1. ins.reads \in Seq(Addresses) /\ ins.writes \subseteq Addresses
  BY DEF Instructions
<1>2. Reads(ins) \in Seq(Addresses)
  BY <1>1 DEF Reads
<1>3. Stores(ins) \subseteq ins.writes
  BY DEF Stores
<1>4. ins.writes \subseteq Nat
  BY <1>1, PinTraceAssumption
<1>5. Len(Reads(ins)) \in Nat
  BY <1>2
<1> QED BY <1>2, <1>3, <1>4, <1>5

(* The address in the line due for a store. *)
AddressDue(ins, a) == IF ins.executed THEN a ELSE NoAddress

LEMMA NothingInOrder == SetToSeq({}) = <<>>
<1>1. Cardinality({}) = 0
  BY FS_EmptySet
<1>2. \E f \in [1 .. 0 -> {}] : IsInjective(f)
  <2>1. <<>> \in [1 .. 0 -> {}] /\ IsInjective(<<>>)
    BY DEF IsInjective
  <2> QED BY <2>1
<1>3. SetToSeq({}) \in [1 .. 0 -> {}]
  BY <1>1, <1>2 DEF SetToSeq
<1> QED BY <1>3

LEMMA OneInOrder ==
  ASSUME NEW x
  PROVE  SetToSeq({x}) = <<x>>
<1>1. Cardinality({x}) = 1
  BY FS_Singleton
<1>2. <<x>> \in [1 .. 1 -> {x}] /\ IsInjective(<<x>>)
  BY DEF IsInjective
<1>3. SetToSeq({x}) \in [1 .. 1 -> {x}]
  BY <1>1, <1>2 DEF SetToSeq
<1> QED BY <1>3

Single(ins) == \A a, b \in ins.writes : a = b

LEMMA DueOfWrite ==
  ASSUME NEW t \in Threads, NEW ins \in Instructions, Single(ins),
         NEW a \in ins.writes
  PROVE  DueOf(t, ins) =
           [k \in DOMAIN Reads(ins) |-> Record(t, ins.ip, "R", Reads(ins)[k])]
             \o <<Record(t, ins.ip, "W", AddressDue(ins, a))>>
<1>1. {Record(t, ins.ip, "W", AddressDue(ins, b)) : b \in ins.writes}
        = {Record(t, ins.ip, "W", AddressDue(ins, a))}
  BY DEF Single
<1> QED BY <1>1, OneInOrder DEF DueOf, AddressDue

LEMMA DueOfNone ==
  ASSUME NEW t \in Threads, NEW ins \in Instructions, ins.writes = {}
  PROVE  DueOf(t, ins) =
           [k \in DOMAIN Reads(ins) |-> Record(t, ins.ip, "R", Reads(ins)[k])]
             \o <<>>
<1>1. {Record(t, ins.ip, "W", AddressDue(ins, b)) : b \in ins.writes} = {}
  OBVIOUS
<1> QED BY <1>1, NothingInOrder DEF DueOf, AddressDue

LEMMA RecordType ==
  ASSUME NEW t \in Threads, NEW ip \in Nat, NEW addr \in Nat \cup {NoAddress},
         NEW r \in {"R", "W"}
  PROVE  Record(t, ip, r, addr) \in Lines
  BY DEF Record, Lines

(* The reads come first, in their order, and the write after them. *)
LEMMA DueInOrder ==
  ASSUME NEW t \in Threads, NEW ins \in Instructions, Single(ins)
  PROVE  /\ DueOf(t, ins) \in Seq(Lines)
         /\ \A k \in 1 .. Len(Reads(ins)) :
              DueOf(t, ins)[k] = Record(t, ins.ip, "R", Reads(ins)[k])
         /\ ins.writes = {} => Len(DueOf(t, ins)) = Len(Reads(ins))
         /\ \A a \in ins.writes :
              /\ Len(DueOf(t, ins)) = Len(Reads(ins)) + 1
              /\ DueOf(t, ins)[Len(Reads(ins)) + 1]
                   = Record(t, ins.ip, "W", AddressDue(ins, a))
<1> DEFINE reads == [k \in DOMAIN Reads(ins) |->
                       Record(t, ins.ip, "R", Reads(ins)[k])]
<1>1. /\ ins.ip \in Nat /\ Reads(ins) \in Seq(Addresses)
      /\ ins.writes \subseteq Nat /\ Addresses \subseteq Nat
  BY Operands, PinTraceAssumption DEF Instructions
<1>2. DOMAIN Reads(ins) = 1 .. Len(Reads(ins)) /\ Len(Reads(ins)) \in Nat
  BY <1>1
<1>3. \A k \in DOMAIN Reads(ins) : Record(t, ins.ip, "R", Reads(ins)[k]) \in Lines
  <2> SUFFICES ASSUME NEW k \in DOMAIN Reads(ins)
               PROVE  Record(t, ins.ip, "R", Reads(ins)[k]) \in Lines
    OBVIOUS
  <2>1. k \in 1 .. Len(Reads(ins))
    BY <1>2
  <2>2. Reads(ins)[k] \in Addresses
    BY <1>1, <2>1
  <2> QED BY <1>1, <2>2, RecordType
<1>4. reads \in Seq(Lines) /\ Len(reads) = Len(Reads(ins))
  BY <1>2, <1>3
<1>5. \A k \in 1 .. Len(Reads(ins)) :
        reads[k] = Record(t, ins.ip, "R", Reads(ins)[k])
  BY <1>2
<1> HIDE DEF reads
<1>6. CASE ins.writes = {}
  <2>1. DueOf(t, ins) = reads \o <<>>
    BY <1>6, DueOfNone DEF reads
  <2>2. reads \o <<>> = reads
    BY <1>4
  <2> QED BY <1>4, <1>5, <1>6, <2>1, <2>2
<1>7. ASSUME NEW a \in ins.writes
      PROVE  /\ DueOf(t, ins) \in Seq(Lines)
             /\ \A k \in 1 .. Len(Reads(ins)) :
                  DueOf(t, ins)[k] = Record(t, ins.ip, "R", Reads(ins)[k])
             /\ Len(DueOf(t, ins)) = Len(Reads(ins)) + 1
             /\ DueOf(t, ins)[Len(Reads(ins)) + 1]
                  = Record(t, ins.ip, "W", AddressDue(ins, a))
  <2> DEFINE w == Record(t, ins.ip, "W", AddressDue(ins, a))
  <2>1. DueOf(t, ins) = reads \o <<w>>
    BY DueOfWrite DEF reads
  <2>2. w \in Lines
    <3>1. AddressDue(ins, a) \in Nat \cup {NoAddress}
      BY <1>1 DEF AddressDue
    <3> QED BY <1>1, <3>1, RecordType
  <2> HIDE DEF w
  <2>3. /\ reads \o <<w>> \in Seq(Lines)
        /\ Len(reads \o <<w>>) = Len(reads) + 1
        /\ (reads \o <<w>>)[Len(reads) + 1] = w
        /\ \A k \in 1 .. Len(reads) : (reads \o <<w>>)[k] = reads[k]
    BY <1>4, <2>2
  <2> QED BY <1>4, <1>5, <2>1, <2>3 DEF w
<1> QED BY <1>6, <1>7

-----------------------------------------------------------------------------
(* The lines due from a thread *)

CodeInv == code \in [Threads -> Codes]

LEMMA CodeOf ==
  ASSUME CodeInv, NEW t \in Threads
  PROVE  /\ code[t] \in Seq(Instructions)
         /\ \A n \in 1 .. Len(code[t]) :
              code[t][n] \in Instructions /\ Single(code[t][n])
<1>1. code[t] \in Codes
  BY DEF CodeInv
<1>2. code[t] \in Seq(Instructions)
  BY <1>1, PinTraceAssumption
<1>3. DOMAIN code[t] = 1 .. Len(code[t])
  BY <1>2
<1>4. \A n \in DOMAIN code[t] : Single(code[t][n])
  BY <1>1, PinTraceAssumption DEF Single
<1>5. \A n \in 1 .. Len(code[t]) : code[t][n] \in Instructions
  BY <1>2
<1> QED BY <1>2, <1>3, <1>4, <1>5

LEMMA ListsOfDue ==
  ASSUME CodeInv, NEW t \in Threads
  PROVE  /\ DueLists(t) \in Seq(Seq(Lines))
         /\ Len(DueLists(t)) = Len(code[t]) /\ Len(code[t]) \in Nat
         /\ \A n \in 1 .. Len(code[t]) :
              DueLists(t)[n] = DueOf(t, code[t][n])
         /\ Due(t) = FlattenSeq(DueLists(t))
<1>1. code[t] \in Seq(Instructions)
  BY CodeOf
<1>2. DOMAIN code[t] = 1 .. Len(code[t]) /\ Len(code[t]) \in Nat
  BY <1>1
<1>3. \A n \in 1 .. Len(code[t]) : DueOf(t, code[t][n]) \in Seq(Lines)
  BY CodeOf, DueInOrder
<1>4. DueLists(t) = [n \in 1 .. Len(code[t]) |-> DueOf(t, code[t][n])]
  BY <1>2 DEF DueLists
<1>5. Due(t) = FlattenSeq(DueLists(t))
  BY DEF Due, DueLists
<1> QED BY <1>2, <1>3, <1>4, <1>5

LEMMA BeforeNext ==
  ASSUME CodeInv, NEW t \in Threads, NEW p \in 1 .. Len(code[t])
  PROVE  /\ Before(t, p) \in Seq(Lines) /\ Before(t, p + 1) \in Seq(Lines)
         /\ Before(t, p + 1) = Before(t, p) \o DueOf(t, code[t][p])
         /\ DueOf(t, code[t][p]) \in Seq(Lines)
<1>1. /\ DueLists(t) \in Seq(Seq(Lines)) /\ Len(code[t]) \in Nat
      /\ Len(DueLists(t)) = Len(code[t])
      /\ DueLists(t)[p] = DueOf(t, code[t][p])
  BY ListsOfDue
<1>2. p \in 1 .. Len(DueLists(t)) /\ (p + 1) - 1 = p
  BY <1>1
<1> QED BY <1>1, <1>2, FlattenNext DEF Before

LEMMA BeforeAll ==
  ASSUME CodeInv, NEW t \in Threads
  PROVE  /\ Before(t, Len(code[t]) + 1) = Due(t)
         /\ Due(t) \in Seq(Lines)
         /\ \A p \in 1 .. Len(code[t]) + 1 : IsPrefix(Before(t, p), Due(t))
<1> DEFINE lists == DueLists(t)
<1>1. /\ lists \in Seq(Seq(Lines)) /\ Len(code[t]) \in Nat
      /\ Len(lists) = Len(code[t]) /\ Due(t) = FlattenSeq(lists)
  BY ListsOfDue
<1>2. \A p : Before(t, p) = FlattenSeq(SubSeq(lists, 1, p - 1))
  BY DEF Before
<1> HIDE DEF lists
<1>3. /\ (Len(code[t]) + 1) - 1 = Len(lists)
      /\ SubSeq(lists, 1, Len(lists)) = lists
  BY <1>1
<1>4. \A p \in 1 .. Len(code[t]) + 1 : p - 1 \in 0 .. Len(lists)
  BY <1>1
<1>5. \A m \in 0 .. Len(lists) :
        IsPrefix(FlattenSeq(SubSeq(lists, 1, m)), FlattenSeq(lists))
  BY <1>1, FlattenPrefix
<1>6. Due(t) \in Seq(Lines)
  BY <1>1, FlattenType
<1> QED BY <1>1, <1>2, <1>3, <1>4, <1>5, <1>6

(* What is due so far is always the beginning of all that will be due. *)
LEMMA SoFarIsPrefix ==
  ASSUME CodeInv, NEW t \in Threads, NEW p \in 1 .. Len(code[t]) + 1,
         NEW c \in Nat
  PROVE  SoFarAt(t, p, c) \in Seq(Lines) /\ IsPrefix(SoFarAt(t, p, c), Due(t))
<1>1. Due(t) \in Seq(Lines) /\ code[t] \in Seq(Instructions)
  BY BeforeAll, CodeOf
<1>2. CASE p > Len(code[t])
  <2>1. IsPrefix(Due(t), Due(t))
    BY <1>1, PrefixElements
  <2> QED BY <1>1, <1>2, <2>1 DEF SoFarAt
<1>3. CASE ~(p > Len(code[t]))
  <2>1. p \in 1 .. Len(code[t]) /\ p + 1 \in 1 .. Len(code[t]) + 1
    BY <1>1, <1>3
  <2> DEFINE ins == code[t][p]
             acc == DueOf(t, ins)
             k == IF c <= Len(Reads(ins)) THEN c ELSE Len(Reads(ins))
  <2>2. ins \in Instructions /\ Single(ins)
    BY <2>1, CodeOf
  <2>3. Reads(ins) \in Seq(Addresses)
    BY <2>2, Operands
  <2>4. acc \in Seq(Lines) /\ k \in 0 .. Len(acc)
    <3>1. Len(Reads(ins)) \in Nat
      BY <2>3
    <3>2. acc \in Seq(Lines) /\ Len(acc) >= Len(Reads(ins))
      <4>1. ins.writes = {} \/ \E a \in ins.writes : TRUE
        OBVIOUS
      <4> HIDE DEF ins
      <4> QED BY <2>2, <3>1, <4>1, DueInOrder
    <3> HIDE DEF acc, ins
    <3> QED BY <3>1, <3>2
  <2>5. SoFarAt(t, p, c) = Before(t, p) \o SubSeq(acc, 1, k)
    BY <1>3 DEF SoFarAt
  <2>6. /\ Before(t, p) \in Seq(Lines) /\ Before(t, p + 1) \in Seq(Lines)
        /\ Before(t, p + 1) = Before(t, p) \o acc
    BY <2>1, BeforeNext
  <2>7. IsPrefix(Before(t, p + 1), Due(t))
    BY <2>1, BeforeAll
  <2> DEFINE b == Before(t, p)
  <2> HIDE DEF acc, k, b
  <2>8. b \o SubSeq(acc, 1, k) \in Seq(Lines)
    BY <2>4, <2>6 DEF b
  <2>9. IsPrefix(b \o SubSeq(acc, 1, k), b \o acc)
    <3>1. /\ b \in Seq(Lines) /\ acc \in Seq(Lines)
          /\ SubSeq(acc, 1, k) \in Seq(Lines)
          /\ Len(SubSeq(acc, 1, k)) = k /\ k <= Len(acc)
          /\ \A i \in 1 .. k : SubSeq(acc, 1, k)[i] = acc[i]
      BY <2>4, <2>6 DEF b
    <3> DEFINE d == SubSeq(acc, 1, k)
    <3> HIDE DEF d
    <3>2. /\ Len(b \o d) <= Len(b \o acc)
          /\ \A i \in 1 .. Len(b \o d) : (b \o d)[i] = (b \o acc)[i]
      BY <3>1 DEF d
    <3>3. b \o acc \in Seq(Lines) /\ b \o d \in Seq(Lines)
      BY <3>1 DEF d
    <3> QED BY <3>2, <3>3, PrefixElements DEF d
  <2> QED BY <1>1, <2>5, <2>6, <2>7, <2>8, <2>9, PrefixTransitive DEF b
<1> QED BY <1>2, <1>3

(* The effect of each call on what is due. *)
LEMMA SoFarAtStart ==
  ASSUME CodeInv, NEW t \in Threads, NEW p \in 1 .. Len(code[t]) + 1
  PROVE  SoFarAt(t, p, 0) = Before(t, p)
<1>1. Len(code[t]) \in Nat /\ code[t] \in Seq(Instructions)
  BY CodeOf
<1>2. CASE p > Len(code[t])
  <2>1. p = Len(code[t]) + 1
    BY <1>1, <1>2
  <2> QED BY <1>2, <2>1, BeforeAll DEF SoFarAt
<1>3. CASE ~(p > Len(code[t]))
  <2>1. p \in 1 .. Len(code[t])
    BY <1>1, <1>3
  <2> DEFINE acc == DueOf(t, code[t][p])
  <2>2. Before(t, p) \in Seq(Lines) /\ acc \in Seq(Lines)
    BY <2>1, BeforeNext
  <2>3. Len(Reads(code[t][p])) \in Nat
    BY <2>1, CodeOf, Operands
  <2>4. SoFarAt(t, p, 0) = Before(t, p) \o SubSeq(acc, 1, 0)
    BY <1>3, <2>3 DEF SoFarAt
  <2> HIDE DEF acc
  <2>5. Before(t, p) \o SubSeq(acc, 1, 0) = Before(t, p)
    BY <2>2
  <2> QED BY <2>4, <2>5
<1> QED BY <1>2, <1>3

LEMMA SoFarRead ==
  ASSUME CodeInv, NEW t \in Threads, NEW p \in 1 .. Len(code[t]),
         NEW c \in Nat, c < Len(Reads(code[t][p]))
  PROVE  SoFarAt(t, p, c + 1) =
           Append(SoFarAt(t, p, c),
                  Record(t, code[t][p].ip, "R", Reads(code[t][p])[c + 1]))
<1> DEFINE ins == code[t][p]
           acc == DueOf(t, ins)
           b   == Before(t, p)
           r   == Len(Reads(ins))
<1>1. /\ ins \in Instructions /\ Single(ins) /\ p <= Len(code[t])
      /\ Len(code[t]) \in Nat
  BY CodeOf
<1>2. r \in Nat
  BY <1>1, Operands
<1>3. acc \in Seq(Lines) /\ r <= Len(acc)
  <2>1. ins.writes = {} \/ \E a \in ins.writes : TRUE
    OBVIOUS
  <2> HIDE DEF ins
  <2> QED BY <1>1, <1>2, <2>1, DueInOrder
<1>4. acc[c + 1] = Record(t, ins.ip, "R", Reads(ins)[c + 1])
  <2>1. c + 1 \in 1 .. Len(Reads(ins))
    BY <1>2
  <2> HIDE DEF ins
  <2> QED BY <1>1, <2>1, DueInOrder
<1>5. b \in Seq(Lines)
  BY BeforeNext
<1>6. SoFarAt(t, p, c) = b \o SubSeq(acc, 1, c)
  BY <1>1, <1>2 DEF SoFarAt
<1>7. SoFarAt(t, p, c + 1) = b \o SubSeq(acc, 1, c + 1)
  <2>1. ~(p > Len(code[t])) /\ c + 1 <= Len(Reads(ins))
    BY <1>1, <1>2
  <2> QED BY <2>1, Zenon DEF SoFarAt
<1>8. c < r
  OBVIOUS
<1> HIDE DEF acc, b, ins, r
<1>9. c + 1 <= Len(acc) /\ Len(acc) \in Nat
  BY <1>2, <1>3, <1>8
<1>10. /\ SubSeq(acc, 1, c + 1) = Append(SubSeq(acc, 1, c), acc[c + 1])
       /\ SubSeq(acc, 1, c) \in Seq(Lines) /\ acc[c + 1] \in Lines
  BY <1>3, <1>9
<1>11. b \o Append(SubSeq(acc, 1, c), acc[c + 1])
         = Append(b \o SubSeq(acc, 1, c), acc[c + 1])
  <2> DEFINE d == SubSeq(acc, 1, c)
             x == acc[c + 1]
  <2>1. d \in Seq(Lines) /\ x \in Lines
    BY <1>10
  <2> HIDE DEF d, x
  <2>2. b \o Append(d, x) = Append(b \o d, x)
    BY <1>5, <2>1
  <2> QED BY <2>2 DEF d, x
<1>12. SoFarAt(t, p, c + 1)
         = Append(SoFarAt(t, p, c), Record(t, ins.ip, "R", Reads(ins)[c + 1]))
  BY <1>4, <1>6, <1>7, <1>10, <1>11
<1> QED BY <1>12 DEF ins

LEMMA SoFarAddress ==
  ASSUME CodeInv, NEW t \in Threads, NEW p \in 1 .. Len(code[t])
  PROVE  SoFarAt(t, p, Len(Reads(code[t][p])) + 1)
           = SoFarAt(t, p, Len(Reads(code[t][p])))
<1> DEFINE r == Len(Reads(code[t][p]))
<1>1. code[t][p] \in Instructions /\ Len(code[t]) \in Nat
  BY CodeOf
<1>2. r \in Nat
  BY <1>1, Operands
<1> HIDE DEF r
<1>3. ~(p > Len(code[t])) /\ ~(r + 1 <= r) /\ r <= r
  BY <1>1, <1>2
<1> QED BY <1>3, Zenon DEF SoFarAt, r

LEMMA SoFarNone ==
  ASSUME CodeInv, NEW t \in Threads, NEW p \in 1 .. Len(code[t]),
         code[t][p].writes = {}
  PROVE  SoFarAt(t, p + 1, 0) = SoFarAt(t, p, Len(Reads(code[t][p])))
<1> DEFINE ins == code[t][p]
           acc == DueOf(t, ins)
           r   == Len(Reads(ins))
<1>1. /\ ins \in Instructions /\ Single(ins) /\ p <= Len(code[t])
      /\ Len(code[t]) \in Nat
  BY CodeOf
<1>2. r \in Nat
  BY <1>1, Operands
<1>3. acc \in Seq(Lines) /\ Len(acc) = r
  BY <1>1, DueInOrder
<1>4. SoFarAt(t, p, r) = Before(t, p) \o SubSeq(acc, 1, r)
  BY <1>1, <1>2 DEF SoFarAt
<1>5. SoFarAt(t, p + 1, 0) = Before(t, p) \o acc
  <2>1. p + 1 \in 1 .. Len(code[t]) + 1
    BY <1>1
  <2> QED BY <2>1, SoFarAtStart, BeforeNext
<1> HIDE DEF acc, r
<1>6. SubSeq(acc, 1, r) = acc
  BY <1>3
<1> QED BY <1>4, <1>5, <1>6 DEF r

LEMMA SoFarWrite ==
  ASSUME CodeInv, NEW t \in Threads, NEW p \in 1 .. Len(code[t]),
         NEW a \in code[t][p].writes
  PROVE  SoFarAt(t, p + 1, 0) =
           Append(SoFarAt(t, p, Len(Reads(code[t][p]))),
                  Record(t, code[t][p].ip, "W", AddressDue(code[t][p], a)))
<1> DEFINE ins == code[t][p]
           acc == DueOf(t, ins)
           b   == Before(t, p)
           r   == Len(Reads(ins))
<1>1. /\ ins \in Instructions /\ Single(ins) /\ p <= Len(code[t])
      /\ Len(code[t]) \in Nat
  BY CodeOf
<1>2. r \in Nat
  BY <1>1, Operands
<1>3. /\ acc \in Seq(Lines) /\ Len(acc) = r + 1
      /\ acc[r + 1] = Record(t, ins.ip, "W", AddressDue(ins, a))
  BY <1>1, DueInOrder
<1>4. SoFarAt(t, p, r) = b \o SubSeq(acc, 1, r)
  BY <1>1, <1>2 DEF SoFarAt
<1>5. b \in Seq(Lines) /\ SoFarAt(t, p + 1, 0) = b \o acc
  <2>1. p + 1 \in 1 .. Len(code[t]) + 1
    BY <1>1
  <2> QED BY <2>1, SoFarAtStart, BeforeNext
<1> HIDE DEF acc, b, r
<1>6. /\ acc = Append(SubSeq(acc, 1, r), acc[r + 1])
      /\ SubSeq(acc, 1, r) \in Seq(Lines) /\ acc[r + 1] \in Lines
  BY <1>2, <1>3
<1>7. b \o acc = Append(b \o SubSeq(acc, 1, r), acc[r + 1])
  <2> DEFINE d == SubSeq(acc, 1, r)
             x == acc[r + 1]
  <2>1. d \in Seq(Lines) /\ x \in Lines /\ acc = Append(d, x)
    BY <1>6
  <2> HIDE DEF d, x
  <2>2. b \o Append(d, x) = Append(b \o d, x)
    BY <1>5, <2>1
  <2>3. b \o acc = Append(b \o d, x)
    BY <2>1, <2>2
  <2> QED BY <2>3 DEF d, x
<1> QED BY <1>3, <1>4, <1>5, <1>7 DEF r

-----------------------------------------------------------------------------
(* What a thread has written *)

(* The lines of a trace that t has written. *)
Own(t, trace) ==
  FlattenSeq([k \in DOMAIN trace |->
    IF trace[k].thread = t THEN <<trace[k]>> ELSE <<>>])

LEMMA RecordedIsOwn ==
  ASSUME NEW t
  PROVE  /\ Recorded(t) = Own(t, TraceFile)
         /\ Recorded(t)' = Own(t, TraceFile')
  BY DEF Recorded, Own

LEMMA OwnAppend ==
  ASSUME NEW t, NEW trace \in Seq(Lines), NEW line \in Lines
  PROVE  /\ Own(t, trace) \in Seq(Lines)
         /\ Own(t, Append(trace, line)) =
              IF line.thread = t THEN Append(Own(t, trace), line)
                                 ELSE Own(t, trace)
<1> DEFINE One(l) == IF l.thread = t THEN <<l>> ELSE <<>>
           n      == Len(trace)
           more   == Append(trace, line)
           old    == [k \in 1 .. n |-> One(trace[k])]
           new    == [k \in 1 .. n + 1 |-> One(more[k])]
<1>1. /\ n \in Nat /\ DOMAIN trace = 1 .. n /\ DOMAIN more = 1 .. n + 1
      /\ more[n + 1] = line /\ \A k \in 1 .. n : more[k] = trace[k]
      /\ \A k \in 1 .. n : trace[k] \in Lines
  OBVIOUS
<1>2. Own(t, trace) = FlattenSeq(old) /\ Own(t, more) = FlattenSeq(new)
  <2>1. Own(t, trace) = FlattenSeq([k \in DOMAIN trace |-> One(trace[k])])
    BY DEF Own
  <2>2. Own(t, more) = FlattenSeq([k \in DOMAIN more |-> One(more[k])])
    BY DEF Own
  <2> HIDE DEF more, One
  <2> QED BY <1>1, <2>1, <2>2
<1>3. \A l \in Lines : One(l) \in Seq(Lines)
  OBVIOUS
<1>4. One(line) = IF line.thread = t THEN <<line>> ELSE <<>>
  OBVIOUS
<1> HIDE DEF One, n, more
<1>5. old \in Seq(Seq(Lines)) /\ Len(old) = n
  BY <1>1, <1>3
<1>6. new = Append(old, One(line))
  BY <1>1, <1>3, <1>5
<1> HIDE DEF old, new
<1>7. /\ FlattenSeq(old) \in Seq(Lines)
      /\ FlattenSeq(new) = FlattenSeq(old) \o One(line)
  BY <1>3, <1>5, <1>6, FlattenAppend, FlattenType
<1> DEFINE o == FlattenSeq(old)
<1> HIDE DEF o
<1>8. o \o <<line>> = Append(o, line) /\ o \o <<>> = o
  BY <1>7 DEF o
<1> QED BY <1>2, <1>4, <1>7, <1>8 DEF o, more

LEMMA OwnNothing ==
  ASSUME NEW t
  PROVE  Own(t, <<>>) = <<>>
<1>1. [k \in DOMAIN <<>> |-> IF <<>>[k].thread = t THEN <<<<>>[k]>> ELSE <<>>]
        = <<>>
  OBVIOUS
<1>2. FlattenSeq(<<>>) = <<>>
  BY FlattenNone
<1> QED BY <1>1, <1>2 DEF Own

-----------------------------------------------------------------------------
(* What a step of t leaves as it was *)

(* t alone has moved, and not backwards. *)
Moved(t) ==
  /\ code' = code
  /\ \A u \in Threads \ {t} : pc'[u] = pc[u] /\ calls'[u] = calls[u]
  /\ pc'[t] >= pc[t]

LEMMA StoredToKept ==
  ASSUME TypeInv, NEW t \in Threads, Moved(t), NEW v \in Threads, NEW a,
         StoredTo(v, a), pc' \in [Threads -> Nat \ {0}]
  PROVE  StoredTo(v, a)'
<1>2. PICK n \in DOMAIN code[v] : n <= pc[v] /\ a \in Stores(code[v][n])
  BY DEF StoredTo
<1>3. code'[v] = code[v]
  BY DEF Moved
<1>4. pc[v] \in Nat /\ pc'[v] \in Nat /\ pc'[v] >= pc[v]
  <2>1. CASE v = t
    BY <2>1 DEF Moved, TypeInv
  <2>2. CASE v # t
    <3>1. pc'[v] = pc[v]
      BY <2>2 DEF Moved
    <3> QED BY <3>1 DEF TypeInv
  <2> QED BY <2>1, <2>2
<1>5. n \in Nat
  <2>1. code[v] \in Seq(Instructions)
    BY CodeOf DEF TypeInv, CodeInv
  <2> QED BY <2>1
<1>6. n <= pc'[v]
  BY <1>2, <1>4, <1>5
<1>7. n \in DOMAIN code'[v] /\ a \in Stores(code'[v][n])
  BY <1>2, <1>3
<1> QED BY <1>6, <1>7 DEF StoredTo

LEMMA OtherStoreKept ==
  ASSUME TypeInv, NEW t \in Threads, Moved(t), NEW u \in Threads, NEW a,
         OtherStore(u, a), pc' \in [Threads -> Nat \ {0}]
  PROVE  OtherStore(u, a)'
<1>1. PICK v \in Threads \ {u} : StoredTo(v, a)
  BY DEF OtherStore
<1>2. StoredTo(v, a)'
  BY <1>1, StoredToKept
<1> QED BY <1>2 DEF OtherStore

LEMMA StaleKept ==
  ASSUME TypeInv, NEW t \in Threads, Moved(t), NEW a, Stale(a),
         pc' \in [Threads -> Nat \ {0}]
  PROVE  Stale(a)'
<1>1. ASSUME NEW v \in Threads, StoredTo(v, a) PROVE Stale(a)'
  BY <1>1, StoredToKept DEF Stale
<1> QED BY <1>1 DEF Stale

LEMMA MixedUpKept ==
  ASSUME TypeInv, NEW t \in Threads, Moved(t), NEW u \in Threads,
         NEW line, NEW due, MixedUp(u, line, due),
         pc' \in [Threads -> Nat \ {0}]
  PROVE  MixedUp(u, line, due)'
<1>1. OtherStore(u, line.addr) => OtherStore(u, line.addr)'
  BY OtherStoreKept
<1>2. Stale(line.addr) => Stale(line.addr)'
  BY StaleKept
<1> QED BY <1>1, <1>2 DEF MixedUp, NoAddress

LEMMA SoFarNext ==
  ASSUME code' = code, NEW t
  PROVE  SoFar(t)' = SoFarAt(t, pc'[t], calls'[t])
<1>1. DueLists(t)' = DueLists(t)
  BY DEF DueLists
<1>2. Due(t)' = Due(t)
  BY DEF Due
<1> QED BY <1>1, <1>2 DEF SoFar, SoFarAt, Before

LEMMA SoFarType ==
  ASSUME TypeInv, ProgressInv, NEW t \in Threads
  PROVE  SoFar(t) \in Seq(Lines) /\ IsPrefix(SoFar(t), Due(t))
<1>1. /\ CodeInv /\ pc[t] \in Nat \ {0} /\ calls[t] \in Nat
      /\ pc[t] <= Len(code[t]) + 1
  BY DEF TypeInv, CodeInv, ProgressInv, ProgressOf
<1>2. Len(code[t]) \in Nat
  BY <1>1, CodeOf
<1>3. pc[t] \in 1 .. Len(code[t]) + 1
  BY <1>1, <1>2
<1> QED BY <1>1, <1>3, SoFarIsPrefix DEF SoFar

LEMMA RecordSame ==
  ASSUME TypeInv, NEW t \in Threads, Moved(t), NEW u \in Threads, RecordOf(u),
         SoFar(u)' = SoFar(u), Recorded(u)' = Recorded(u),
         pc' \in [Threads -> Nat \ {0}]
  PROVE  RecordOf(u)'
<1>1. \A k \in 1 .. Len(SoFar(u)) : MixedUp(u, Recorded(u)[k], SoFar(u)[k])
  BY DEF RecordOf
<1>2. \A k \in 1 .. Len(SoFar(u)) : MixedUp(u, Recorded(u)[k], SoFar(u)[k])'
  <2> SUFFICES ASSUME NEW k \in 1 .. Len(SoFar(u))
               PROVE  MixedUp(u, Recorded(u)[k], SoFar(u)[k])'
    OBVIOUS
  <2> DEFINE line == Recorded(u)[k]
             due  == SoFar(u)[k]
  <2>1. line' = line /\ due' = due
    OBVIOUS
  <2>2. PICK l, d : l = line /\ d = due
    OBVIOUS
  <2>3. MixedUp(u, l, d)
    BY <1>1, <2>2
  <2>4. MixedUp(u, l, d)'
    BY <2>3, MixedUpKept
  <2>5. l = line' /\ d = due'
    BY <2>1, <2>2
  <2> HIDE DEF line, due
  <2>6. MixedUp(u, line, due)'
    BY <2>4, <2>5 DEF MixedUp, OtherStore
  <2> QED BY <2>6 DEF line, due
<1> QED BY <1>2 DEF RecordOf

(* t records what is due. *)
LEMMA RecordMore ==
  ASSUME TypeInv, ProgressInv, NEW t \in Threads, Moved(t), RecordOf(t),
         NEW line, NEW due,
         SoFar(t)' = Append(SoFar(t), due),
         Recorded(t)' = Append(Recorded(t), line),
         Recorded(t) \in Seq(Lines),
         MixedUp(t, line, due)', pc' \in [Threads -> Nat \ {0}]
  PROVE  RecordOf(t)'
<1> DEFINE a == Recorded(t)
           b == SoFar(t)
<1>1. b \in Seq(Lines) /\ Len(b) \in Nat /\ Len(a) = Len(b)
  BY SoFarType DEF RecordOf
<1>2. PICK n \in Nat : n = Len(b)
  BY <1>1
<1>3. \A k \in 1 .. n : MixedUp(t, a[k], b[k])
  BY <1>2 DEF RecordOf
<1>4. PICK c, d : c = Append(a, line) /\ d = Append(b, due)
  OBVIOUS
<1>5. c = Recorded(t)' /\ d = SoFar(t)'
  BY <1>4
<1> HIDE DEF a, b
<1>6. /\ Len(c) = n + 1 /\ Len(d) = n + 1
      /\ c[n + 1] = line /\ d[n + 1] = due
      /\ \A k \in 1 .. n : c[k] = a[k] /\ d[k] = b[k]
  BY <1>1, <1>2, <1>4 DEF a
<1>7. \A k \in 1 .. n : MixedUp(t, c[k], d[k])'
  <2> SUFFICES ASSUME NEW k \in 1 .. n PROVE MixedUp(t, c[k], d[k])'
    OBVIOUS
  <2>1. MixedUp(t, c[k], d[k])
    BY <1>3, <1>6
  <2> QED BY <2>1, MixedUpKept
<1>8. MixedUp(t, c[n + 1], d[n + 1])'
  BY <1>6 DEF MixedUp, OtherStore
<1>9. \A k \in 1 .. Len(d) : MixedUp(t, c[k], d[k])'
  <2>1. \A k \in 1 .. Len(d) : k \in 1 .. n \/ k = n + 1
    BY <1>6
  <2>2. \A k \in 1 .. Len(d) : k = n + 1 => MixedUp(t, c[k], d[k])'
    BY <1>8 DEF MixedUp, OtherStore
  <2> QED BY <1>7, <2>1, <2>2
<1>10. Len(c) = Len(d)
  BY <1>6
<1> QED BY <1>5, <1>9, <1>10 DEF RecordOf, MixedUp, OtherStore

LEMMA OthersRecord ==
  ASSUME TypeInv, RecordInv, NEW t \in Threads, Moved(t),
         pc' \in [Threads -> Nat \ {0}],
         \/ TraceFile' = TraceFile
         \/ \E line \in Lines :
              line.thread = t /\ TraceFile' = Append(TraceFile, line)
  PROVE  \A u \in Threads \ {t} : RecordOf(u)'
<1> SUFFICES ASSUME NEW u \in Threads \ {t} PROVE RecordOf(u)'
  OBVIOUS
<1>1. Recorded(u)' = Recorded(u)
  <2>1. CASE TraceFile' = TraceFile
    BY <2>1, RecordedIsOwn
  <2>2. CASE \E line \in Lines :
               line.thread = t /\ TraceFile' = Append(TraceFile, line)
    <3>1. PICK line \in Lines :
            line.thread = t /\ TraceFile' = Append(TraceFile, line)
      BY <2>2
    <3>2. Own(u, TraceFile') = Own(u, TraceFile)
      BY <3>1, OwnAppend DEF TypeInv
    <3> QED BY <3>2, RecordedIsOwn
  <2> QED BY <2>1, <2>2
<1>2. SoFar(u)' = SoFar(u)
  <2>1. code' = code /\ pc'[u] = pc[u] /\ calls'[u] = calls[u]
    BY DEF Moved
  <2> QED BY <2>1, SoFarNext DEF SoFar
<1> QED BY <1>1, <1>2, RecordSame DEF RecordInv

(* While nobody else stores, the address stays. *)
LEMMA WriteAddrKept ==
  ASSUME TypeInv, WriteAddrInv, NEW t \in Threads, Moved(t),
         pc' \in [Threads -> Nat \ {0}], WriteAddr' = WriteAddr, ~Storing(t)'
  PROVE  WriteAddrInv'
<1>0. Stale(WriteAddr)'
  <2>1. PICK a : a = WriteAddr
    OBVIOUS
  <2>2. Stale(a)'
    BY <2>1, StaleKept DEF WriteAddrInv
  <2> QED BY <2>1, <2>2 DEF Stale, StoredTo
<1> SUFFICES ASSUME NEW u \in Threads, Storing(u)'
             PROVE  (WriteAddr \in Stores(Instruction(u))
                       \/ OtherStore(u, WriteAddr))'
  BY <1>0 DEF WriteAddrInv
<1>1. u # t
  OBVIOUS
<1>2. code' = code /\ pc'[u] = pc[u] /\ calls'[u] = calls[u]
  BY <1>1 DEF Moved
<1>3. Storing(u)
  BY <1>2 DEF Storing, Finished, Instruction
<1>4. Instruction(u)' = Instruction(u)
  BY <1>2 DEF Instruction
<1>5. CASE WriteAddr \in Stores(Instruction(u))
  BY <1>4, <1>5
<1>6. CASE OtherStore(u, WriteAddr)
  <2>1. PICK a : a = WriteAddr
    OBVIOUS
  <2>2. OtherStore(u, a)'
    BY <1>6, <2>1, OtherStoreKept
  <2>3. OtherStore(u, WriteAddr)'
    BY <2>1, <2>2 DEF OtherStore, StoredTo
  <2> QED BY <2>3
<1> QED BY <1>3, <1>5, <1>6 DEF WriteAddrInv

LEMMA OthersProgress ==
  ASSUME TypeInv, ProgressInv, NEW t \in Threads, Moved(t)
  PROVE  \A u \in Threads \ {t} : ProgressOf(u)'
<1> SUFFICES ASSUME NEW u \in Threads \ {t} PROVE ProgressOf(u)'
  OBVIOUS
<1>1. code' = code /\ pc'[u] = pc[u] /\ calls'[u] = calls[u]
  BY DEF Moved
<1> QED BY <1>1 DEF ProgressInv, ProgressOf, Finished, Instruction, Storing

(* The trace grows by a record. *)
LEMMA FrameMore ==
  ASSUME FrameInv, TraceFile \in Seq(Lines), ~closed, closed' = closed,
         NEW line \in Lines, line.op \in {"R", "W"},
         TraceFile' = Append(TraceFile, line)
  PROVE  FrameInv'
<1>1. /\ Len(TraceFile') = Len(TraceFile) + 1 /\ Len(TraceFile) \in Nat
      /\ TraceFile'[Len(TraceFile) + 1] = line
      /\ \A k \in 1 .. Len(TraceFile) : TraceFile'[k] = TraceFile[k]
  OBVIOUS
<1>2. Len(TraceFile) >= 3 /\ \A k \in 1 .. 3 : TraceFile[k] = trace_header[k]
  BY DEF FrameInv
<1>3. \A k \in 4 .. Len(TraceFile) : TraceFile[k].op \in {"R", "W"}
  BY DEF FrameInv
<1>4. \A k \in 4 .. Len(TraceFile') : TraceFile'[k].op \in {"R", "W"}
  BY <1>1, <1>3
<1>5. \A k \in 1 .. 3 : TraceFile'[k] = trace_header[k]
  BY <1>1, <1>2
<1>6. Len(TraceFile') >= 3
  BY <1>1, <1>2
<1> QED BY <1>4, <1>5, <1>6 DEF FrameInv, trace_header

(* Where a call finds its thread. *)
LEMMA AtCall ==
  ASSUME TypeInv, ProgressInv, NEW t \in Threads, Calls(t)
  PROVE  /\ CodeInv /\ pc[t] \in 1 .. Len(code[t]) /\ Len(code[t]) \in Nat
         /\ Instruction(t) = code[t][pc[t]]
         /\ Instruction(t) \in Instructions /\ Single(Instruction(t))
         /\ Instruction(t).ip \in Nat
         /\ Reads(Instruction(t)) \in Seq(Addresses)
         /\ Len(Reads(Instruction(t))) \in Nat
         /\ Instruction(t).writes \subseteq Nat
         /\ Stores(Instruction(t)) \subseteq Instruction(t).writes
         /\ calls[t] \in Nat /\ ~closed
<1>1. CodeInv /\ pc[t] \in Nat \ {0} /\ calls[t] \in Nat
  BY DEF TypeInv, CodeInv
<1>2. Len(code[t]) \in Nat /\ code[t] \in Seq(Instructions)
  BY <1>1, CodeOf
<1>3. ~(pc[t] > Len(code[t])) /\ ~closed
  BY DEF Calls, Finished
<1>4. pc[t] \in 1 .. Len(code[t])
  BY <1>1, <1>2, <1>3
<1>5. Instruction(t) = code[t][pc[t]]
  BY DEF Instruction
<1>6. Instruction(t) \in Instructions /\ Single(Instruction(t))
  BY <1>1, <1>4, <1>5, CodeOf
<1>7. Instruction(t).ip \in Nat
  BY <1>6 DEF Instructions
<1>8. /\ Reads(Instruction(t)) \in Seq(Addresses)
      /\ Len(Reads(Instruction(t))) \in Nat
      /\ Instruction(t).writes \subseteq Nat
      /\ Stores(Instruction(t)) \subseteq Instruction(t).writes
  BY <1>6, Operands
<1> QED BY <1>1, <1>2, <1>3, <1>4, <1>5, <1>6, <1>7, <1>8

LEMMA StepIInv ==
  ASSUME IInv, NEW t \in Threads, Moved(t), ~closed, closed' = closed,
         \/ TraceFile' = TraceFile
         \/ \E line \in Lines :
              line.thread = t /\ TraceFile' = Append(TraceFile, line),
         TypeInv', ProgressOf(t)', WriteAddrInv', RecordOf(t)', FrameInv'
  PROVE  IInv'
<1>1. pc' \in [Threads -> Nat \ {0}]
  BY DEF TypeInv
<1>2. RecordInv'
  <2>1. \A u \in Threads \ {t} : RecordOf(u)'
    BY <1>1, OthersRecord DEF IInv
  <2> QED BY <2>1 DEF RecordInv
<1>3. ProgressInv'
  <2>1. \A u \in Threads \ {t} : ProgressOf(u)'
    BY OthersProgress DEF IInv
  <2> QED BY <2>1 DEF ProgressInv
<1> QED BY <1>2, <1>3 DEF IInv

-----------------------------------------------------------------------------
(* Every step preserves the invariant *)

LEMMA RecordMemIInv ==
  ASSUME IInv, NEW t \in Threads, RecordMem(t)
  PROVE  IInv'
<1> DEFINE ins  == Instruction(t)
           due  == Record(t, ins.ip, "R", Reads(ins)[calls[t] + 1])
<1>1. /\ TypeInv /\ ProgressInv /\ WriteAddrInv /\ RecordInv /\ FrameInv
      /\ Calls(t) /\ calls[t] < Len(Reads(ins))
      /\ TraceFile' = Append(TraceFile, due)
      /\ calls' = [calls EXCEPT ![t] = @ + 1]
      /\ UNCHANGED <<code, pc, WriteAddr, closed>>
  BY DEF IInv, RecordMem
<1>2. /\ CodeInv /\ pc[t] \in 1 .. Len(code[t]) /\ Len(code[t]) \in Nat
      /\ ins = code[t][pc[t]] /\ ins.ip \in Nat
      /\ Reads(ins) \in Seq(Addresses) /\ Len(Reads(ins)) \in Nat
      /\ calls[t] \in Nat /\ ~closed
  BY <1>1, AtCall
<1>3. due \in Lines /\ due.thread = t /\ due.op = "R"
  <2>1. calls[t] + 1 \in 1 .. Len(Reads(ins))
    <3>1. \A a, b \in Nat : a < b => a + 1 \in 1 .. b
      OBVIOUS
    <3> QED BY <1>1, <1>2, <3>1, Zenon
  <2>2. Reads(ins)[calls[t] + 1] \in Nat
    <3>1. Reads(ins)[calls[t] + 1] \in Addresses
      BY <1>2, <2>1
    <3> QED BY <3>1, PinTraceAssumption
  <2>3. due.thread = t /\ due.op = "R"
    BY DEF Record
  <2> QED BY <1>2, <2>2, <2>3, RecordType
<1>4. /\ calls'[t] = calls[t] + 1 /\ pc' = pc /\ code' = code
      /\ calls' \in [Threads -> Nat]
      /\ \A u \in Threads \ {t} : calls'[u] = calls[u]
  BY <1>1 DEF TypeInv
<1>5. Moved(t)
  BY <1>2, <1>4 DEF Moved
<1> HIDE DEF due
<1>6. TypeInv'
  <2>1. TraceFile' \in Seq(Lines)
    BY <1>1, <1>3 DEF TypeInv
  <2> QED BY <1>1, <1>4, <2>1 DEF TypeInv
<1>7. ins' = ins
  BY <1>4 DEF Instruction
<1>8. ~Storing(t)'
  BY <1>1, <1>2, <1>4, <1>7 DEF Storing
<1>9. ProgressOf(t)'
  <2>1. ~Finished(t)'
    BY <1>2, <1>4 DEF Finished
  <2>2. (pc[t] <= Len(code[t]) + 1)'
    BY <1>2, <1>4
  <2>3. calls'[t] <= Len(Reads(ins)) + 1
    BY <1>1, <1>2, <1>4
  <2> QED BY <1>7, <1>8, <2>1, <2>2, <2>3 DEF ProgressOf
<1>10. WriteAddrInv'
  BY <1>1, <1>5, <1>6, <1>8, WriteAddrKept DEF TypeInv
<1>11. RecordOf(t)'
  <2>1. SoFar(t)' = SoFarAt(t, pc[t], calls[t] + 1)
    BY <1>4, SoFarNext
  <2>2. SoFar(t)' = Append(SoFar(t), due)
    BY <1>1, <1>2, <2>1, SoFarRead DEF SoFar, due
  <2>3. /\ Recorded(t)' = Append(Recorded(t), due)
        /\ Recorded(t) \in Seq(Lines)
    BY <1>1, <1>3, OwnAppend, RecordedIsOwn DEF TypeInv
  <2>4. PICK line : line = due
    OBVIOUS
  <2>5. MixedUp(t, line, line)'
    BY DEF MixedUp
  <2>6. RecordOf(t)
    BY <1>1 DEF RecordInv
  <2> QED BY <1>1, <1>4, <1>5, <2>2, <2>3, <2>4, <2>5, <2>6, RecordMore
          DEF TypeInv
<1>12. FrameInv'
  BY <1>1, <1>2, <1>3, FrameMore DEF TypeInv
<1>13. \E line \in Lines :
         line.thread = t /\ TraceFile' = Append(TraceFile, line)
  BY <1>1, <1>3
<1> QED BY <1>1, <1>2, <1>5, <1>6, <1>9, <1>10, <1>11, <1>12, <1>13, StepIInv

LEMMA RecordWriteAddrSizeIInv ==
  ASSUME IInv, NEW t \in Threads, RecordWriteAddrSize(t)
  PROVE  IInv'
<1> DEFINE ins == Instruction(t)
<1>1. /\ TypeInv /\ ProgressInv /\ WriteAddrInv /\ RecordInv /\ FrameInv
      /\ Calls(t) /\ calls[t] = Len(Reads(ins))
      /\ WriteAddr' \in Stores(ins)
      /\ calls' = [calls EXCEPT ![t] = @ + 1]
      /\ UNCHANGED <<code, pc, TraceFile, closed>>
  BY DEF IInv, RecordWriteAddrSize
<1>2. /\ CodeInv /\ pc[t] \in 1 .. Len(code[t]) /\ Len(code[t]) \in Nat
      /\ ins = code[t][pc[t]] /\ Stores(ins) \subseteq Nat
      /\ Len(Reads(ins)) \in Nat /\ calls[t] \in Nat /\ ~closed
  BY <1>1, AtCall
<1>3. /\ calls'[t] = calls[t] + 1 /\ pc' = pc /\ code' = code
      /\ calls' \in [Threads -> Nat]
      /\ \A u \in Threads \ {t} : calls'[u] = calls[u]
  BY <1>1 DEF TypeInv
<1>4. Moved(t)
  BY <1>2, <1>3 DEF Moved
<1>5. TypeInv'
  BY <1>1, <1>2, <1>3 DEF TypeInv
<1>6. \A u \in Threads : Instruction(u)' = Instruction(u)
  BY <1>3 DEF Instruction
<1>7. ProgressOf(t)'
  <2>1. ~Finished(t)'
    BY <1>2, <1>3 DEF Finished
  <2>2. (pc[t] <= Len(code[t]) + 1)'
    BY <1>2, <1>3
  <2>3. calls'[t] <= Len(Reads(ins)) + 1 /\ Stores(ins) # {}
    BY <1>1, <1>2, <1>3
  <2> QED BY <1>6, <2>1, <2>2, <2>3 DEF ProgressOf
<1>8. WriteAddrInv'
  <2>1. StoredTo(t, WriteAddr)'
    <3>1. /\ pc[t] \in DOMAIN code'[t]
          /\ pc[t] <= pc'[t] /\ WriteAddr' \in Stores(code'[t][pc[t]])
      <4>1. code[t] \in Seq(Instructions)
        BY <1>2, CodeOf
      <4> QED BY <1>1, <1>2, <1>3, <4>1
    <3> QED BY <3>1 DEF StoredTo
  <2>2. Stale(WriteAddr)'
    BY <2>1 DEF Stale
  <2> SUFFICES ASSUME NEW u \in Threads
               PROVE  (WriteAddr \in Stores(Instruction(u))
                         \/ OtherStore(u, WriteAddr))'
    BY <2>2 DEF WriteAddrInv
  <2>3. CASE u = t
    BY <1>1, <1>6, <2>3
  <2>4. CASE u # t
    BY <2>1, <2>4 DEF OtherStore
  <2> QED BY <2>3, <2>4
<1>9. RecordOf(t)'
  <2>1. SoFar(t)' = SoFarAt(t, pc[t], calls[t] + 1)
    BY <1>3, SoFarNext
  <2>2. SoFar(t)' = SoFar(t)
    BY <1>1, <1>2, <2>1, SoFarAddress DEF SoFar
  <2>3. Recorded(t)' = Recorded(t)
    BY <1>1, RecordedIsOwn
  <2> QED BY <1>1, <1>3, <1>4, <2>2, <2>3, RecordSame DEF TypeInv, RecordInv
<1>10. FrameInv'
  BY <1>1 DEF FrameInv, trace_header
<1> QED BY <1>1, <1>2, <1>4, <1>5, <1>7, <1>8, <1>9, <1>10, StepIInv

(* t goes on to its next instruction. *)
LEMMA NextInstructionEffect ==
  ASSUME TypeInv, ProgressInv, NEW t \in Threads, Calls(t),
         NextInstruction(t), code' = code
  PROVE  /\ pc' \in [Threads -> Nat \ {0}] /\ calls' \in [Threads -> Nat]
         /\ pc'[t] = pc[t] + 1 /\ calls'[t] = 0
         /\ Moved(t) /\ ~Storing(t)' /\ ProgressOf(t)'
         /\ SoFar(t)' = SoFarAt(t, pc[t] + 1, 0)
<1>1. /\ CodeInv /\ pc[t] \in 1 .. Len(code[t]) /\ Len(code[t]) \in Nat
  BY AtCall
<1>2. /\ pc' \in [Threads -> Nat \ {0}] /\ calls' \in [Threads -> Nat]
      /\ pc'[t] = pc[t] + 1 /\ calls'[t] = 0
      /\ \A u \in Threads \ {t} : pc'[u] = pc[u] /\ calls'[u] = calls[u]
  BY DEF NextInstruction, TypeInv
<1>3. Moved(t)
  BY <1>1, <1>2 DEF Moved
<1>4. ~Finished(t)' => Len(Reads(Instruction(t)')) \in Nat
  <2> SUFFICES ASSUME ~Finished(t)' PROVE Len(Reads(Instruction(t)')) \in Nat
    OBVIOUS
  <2>1. pc[t] + 1 \in 1 .. Len(code[t])
    BY <1>1, <1>2 DEF Finished
  <2>2. Instruction(t)' = code[t][pc[t] + 1]
    BY <1>2 DEF Instruction
  <2>3. code[t][pc[t] + 1] \in Instructions
    BY <1>1, <2>1, CodeOf
  <2> QED BY <2>2, <2>3, Operands
<1>5. ~Storing(t)'
  BY <1>2, <1>4 DEF Storing
<1>6. ProgressOf(t)'
  BY <1>1, <1>2, <1>4, <1>5 DEF ProgressOf
<1>7. SoFar(t)' = SoFarAt(t, pc[t] + 1, 0)
  BY <1>2, SoFarNext
<1> QED BY <1>2, <1>3, <1>5, <1>6, <1>7

LEMMA RecordMemWriteIInv ==
  ASSUME IInv, NEW t \in Threads, RecordMemWrite(t)
  PROVE  IInv'
<1> DEFINE ins  == Instruction(t)
           line == Record(t, ins.ip, "W", WriteAddr)
<1>1. /\ TypeInv /\ ProgressInv /\ WriteAddrInv /\ RecordInv /\ FrameInv
      /\ Calls(t) /\ ins.writes # {}
      /\ calls[t] = IF ins.executed THEN Len(Reads(ins)) + 1 ELSE 0
      /\ TraceFile' = Append(TraceFile, line)
      /\ NextInstruction(t) /\ UNCHANGED <<code, WriteAddr, closed>>
  BY DEF IInv, RecordMemWrite
<1>2. /\ CodeInv /\ pc[t] \in 1 .. Len(code[t]) /\ Len(code[t]) \in Nat
      /\ ins = code[t][pc[t]] /\ ins.ip \in Nat /\ ins.writes \subseteq Nat
      /\ Single(ins) /\ Len(Reads(ins)) \in Nat /\ ~closed
  BY <1>1, AtCall
<1>3. ins.executed => Storing(t) /\ Stores(ins) = ins.writes
  BY <1>1 DEF Storing, Calls, Stores
<1>4. ~ins.executed => calls[t] = Len(Reads(ins))
  BY <1>1 DEF Reads
<1>5. PICK a \in ins.writes : TRUE
  BY <1>1
<1> DEFINE due == Record(t, ins.ip, "W", AddressDue(ins, a))
<1>6. /\ line \in Lines /\ line.thread = t /\ line.op = "W"
      /\ due.op = "W" /\ due.ip = line.ip /\ line.addr = WriteAddr
  <2>1. /\ line.thread = t /\ line.op = "W" /\ line.addr = WriteAddr
        /\ due.op = "W" /\ due.ip = line.ip
    BY DEF Record
  <2>2. WriteAddr \in Nat
    BY <1>1 DEF TypeInv
  <2> QED BY <1>2, <2>1, <2>2, RecordType
<1>7. \/ line = due
      \/ OtherStore(t, WriteAddr)
      \/ due.addr = NoAddress /\ Stale(WriteAddr)
  <2>1. CASE ins.executed
    <3>1. AddressDue(ins, a) = a
      BY <2>1 DEF AddressDue
    <3>2. WriteAddr = a \/ OtherStore(t, WriteAddr)
      BY <1>1, <1>2, <1>3, <1>5, <2>1 DEF WriteAddrInv, Single
    <3> QED BY <3>1, <3>2
  <2>2. CASE ~ins.executed
    BY <1>1, <2>2 DEF WriteAddrInv, AddressDue, Record
  <2> QED BY <2>1, <2>2
<1>8. PICK l, d : l = line /\ d = due
  OBVIOUS
<1> HIDE DEF line, due
<1>9. /\ pc' \in [Threads -> Nat \ {0}] /\ calls' \in [Threads -> Nat]
      /\ Moved(t) /\ ~Storing(t)' /\ ProgressOf(t)'
      /\ SoFar(t)' = SoFarAt(t, pc[t] + 1, 0)
  BY <1>1, NextInstructionEffect
<1>10. TypeInv'
  <2>1. TraceFile' \in Seq(Lines)
    BY <1>1, <1>6 DEF TypeInv
  <2> QED BY <1>1, <1>9, <2>1 DEF TypeInv
<1>11. WriteAddrInv'
  BY <1>1, <1>9, WriteAddrKept
<1>12. RecordOf(t)'
  <2>1. SoFar(t) = SoFarAt(t, pc[t], Len(Reads(ins)))
    <3>1. \/ calls[t] = Len(Reads(code[t][pc[t]])) + 1
          \/ calls[t] = Len(Reads(code[t][pc[t]]))
      BY <1>1, <1>2, <1>4
    <3>2. SoFarAt(t, pc[t], calls[t])
            = SoFarAt(t, pc[t], Len(Reads(code[t][pc[t]])))
      BY <1>2, <3>1, SoFarAddress, Zenon
    <3> QED BY <1>2, <3>2, Zenon DEF SoFar
  <2>2. SoFar(t)' = Append(SoFar(t), d)
    <3>1. /\ a \in code[t][pc[t]].writes
          /\ d = Record(t, code[t][pc[t]].ip, "W",
                        AddressDue(code[t][pc[t]], a))
      BY <1>2, <1>5, <1>8 DEF due
    <3>2. SoFarAt(t, pc[t] + 1, 0)
            = Append(SoFarAt(t, pc[t], Len(Reads(code[t][pc[t]]))), d)
      BY <1>2, <3>1, SoFarWrite
    <3>3. ins = code[t][pc[t]]
      BY <1>2
    <3> HIDE DEF ins
    <3> QED BY <1>9, <2>1, <3>2, <3>3, Zenon
  <2>3. /\ Recorded(t)' = Append(Recorded(t), l)
        /\ Recorded(t) \in Seq(Lines)
    BY <1>1, <1>6, <1>8, OwnAppend, RecordedIsOwn DEF TypeInv
  <2>4. MixedUp(t, l, d)
    BY <1>6, <1>7, <1>8 DEF MixedUp
  <2>5. MixedUp(t, l, d)'
    BY <1>1, <1>9, <2>4, MixedUpKept
  <2>6. RecordOf(t)
    BY <1>1 DEF RecordInv
  <2> QED BY <1>1, <1>9, <2>2, <2>3, <2>5, <2>6, RecordMore
<1>13. FrameInv'
  BY <1>1, <1>2, <1>6, FrameMore DEF TypeInv
<1>14. \E x \in Lines : x.thread = t /\ TraceFile' = Append(TraceFile, x)
  BY <1>1, <1>6
<1> QED BY <1>1, <1>2, <1>9, <1>10, <1>11, <1>12, <1>13, <1>14, StepIInv

LEMMA NoStoreIInv ==
  ASSUME IInv, NEW t \in Threads, NoStore(t)
  PROVE  IInv'
<1> DEFINE ins == Instruction(t)
<1>1. /\ TypeInv /\ ProgressInv /\ WriteAddrInv /\ RecordInv /\ FrameInv
      /\ Calls(t) /\ calls[t] = Len(Reads(ins)) /\ ins.writes = {}
      /\ NextInstruction(t) /\ UNCHANGED <<code, WriteAddr, TraceFile, closed>>
  BY DEF IInv, NoStore
<1>2. /\ CodeInv /\ pc[t] \in 1 .. Len(code[t]) /\ Len(code[t]) \in Nat
      /\ ins = code[t][pc[t]] /\ ~closed
  BY <1>1, AtCall
<1>3. /\ pc' \in [Threads -> Nat \ {0}] /\ calls' \in [Threads -> Nat]
      /\ Moved(t) /\ ~Storing(t)' /\ ProgressOf(t)'
      /\ SoFar(t)' = SoFarAt(t, pc[t] + 1, 0)
  BY <1>1, NextInstructionEffect
<1>4. TypeInv'
  BY <1>1, <1>3 DEF TypeInv
<1>5. WriteAddrInv'
  BY <1>1, <1>3, WriteAddrKept
<1>6. RecordOf(t)'
  <2>1. SoFar(t)' = SoFar(t)
    BY <1>1, <1>2, <1>3, SoFarNone DEF SoFar
  <2>2. Recorded(t)' = Recorded(t)
    BY <1>1, RecordedIsOwn
  <2> QED BY <1>1, <1>3, <2>1, <2>2, RecordSame DEF RecordInv
<1>7. FrameInv'
  BY <1>1 DEF FrameInv, trace_header
<1> QED BY <1>1, <1>2, <1>3, <1>4, <1>5, <1>6, <1>7, StepIInv

LEMMA FooterLine ==
  /\ trace_footer[1] \in Lines /\ trace_footer[1].thread = NoThread
  /\ \A trace \in Seq(Lines) :
       trace \o trace_footer = Append(trace, trace_footer[1])
<1> DEFINE line == Record(NoThread, 0, "", 0)
<1>1. line \in Lines /\ line.thread = NoThread
  BY DEF Record, Lines
<1>2. trace_footer = <<line>>
  BY DEF trace_footer
<1> HIDE DEF line
<1> QED BY <1>1, <1>2

LEMMA FiniIInv ==
  ASSUME IInv, Fini
  PROVE  IInv'
<1> DEFINE line == trace_footer[1]
<1>1. /\ TypeInv /\ ProgressInv /\ WriteAddrInv /\ RecordInv /\ FrameInv
      /\ ~closed /\ Finished(MainThread) /\ closed' = TRUE
      /\ TraceFile' = TraceFile \o trace_footer
      /\ UNCHANGED <<code, pc, calls, WriteAddr>>
  BY DEF IInv, Fini
<1>2. /\ line \in Lines /\ line.thread = NoThread /\ TraceFile \in Seq(Lines)
      /\ TraceFile' = Append(TraceFile, line)
  BY <1>1, FooterLine DEF TypeInv
<1> HIDE DEF line
<1>3. TraceFile' \in Seq(Lines)
  BY <1>2
<1>4. TypeInv'
  BY <1>1, <1>3 DEF TypeInv
<1>5. ProgressInv'
  BY <1>1 DEF ProgressInv, ProgressOf, Finished, Storing, Instruction
<1>6. WriteAddrInv'
  BY <1>1 DEF WriteAddrInv, Storing, Finished, Instruction, OtherStore, Stale,
              StoredTo
<1>7. RecordInv'
  <2> SUFFICES ASSUME NEW t \in Threads PROVE RecordOf(t)'
    BY DEF RecordInv
  <2>1. Recorded(t)' = Recorded(t)
    <3>1. line.thread # t
      BY <1>2, PinTraceAssumption
    <3> QED BY <1>2, <3>1, OwnAppend, RecordedIsOwn
  <2>2. SoFar(t)' = SoFar(t)
    BY <1>1, SoFarNext DEF SoFar
  <2>3. Moved(t) /\ pc' \in [Threads -> Nat \ {0}]
    BY <1>1, <1>4 DEF Moved, TypeInv
  <2> QED BY <1>1, <2>1, <2>2, <2>3, RecordSame DEF RecordInv
<1>8. FrameInv'
  <2>1. /\ Len(TraceFile') = Len(TraceFile) + 1 /\ Len(TraceFile) \in Nat
        /\ TraceFile'[Len(TraceFile) + 1] = line
        /\ \A k \in 1 .. Len(TraceFile) : TraceFile'[k] = TraceFile[k]
    BY <1>2
  <2>2. /\ Len(TraceFile) >= 3
        /\ \A k \in 1 .. 3 : TraceFile[k] = trace_header[k]
        /\ \A k \in 4 .. Len(TraceFile) : TraceFile[k].op \in {"R", "W"}
    BY <1>1 DEF FrameInv
  <2>3. \A k \in 4 .. Len(TraceFile') :
          TraceFile'[k].op \in {"R", "W"} \/ k = Len(TraceFile')
    BY <2>1, <2>2
  <2>4. \A k \in 1 .. 3 : TraceFile'[k] = trace_header[k]
    BY <2>1, <2>2
  <2>5. /\ Len(TraceFile') >= 4 /\ Len(TraceFile') >= 3
        /\ TraceFile'[Len(TraceFile')] = line
    BY <2>1, <2>2
  <2>6. TraceFile'[Len(TraceFile')].thread = NoThread
    BY <1>2, <2>5
  <2>7. trace_header' = trace_header
    BY DEF trace_header
  <2>8. NoThread' = NoThread
    BY DEF NoThread
  <2> QED BY <1>1, <2>3, <2>4, <2>5, <2>6, <2>7, <2>8 DEF FrameInv
<1> QED BY <1>4, <1>5, <1>6, <1>7, <1>8 DEF IInv

LEMMA StutterIInv ==
  ASSUME IInv, UNCHANGED vars
  PROVE  IInv'
<1>1. /\ TypeInv /\ ProgressInv /\ WriteAddrInv /\ RecordInv /\ FrameInv
      /\ UNCHANGED <<code, pc, calls, WriteAddr, TraceFile, closed>>
  BY DEF IInv, vars
<1>2. TypeInv'
  BY <1>1 DEF TypeInv
<1>3. ProgressInv'
  BY <1>1 DEF ProgressInv, ProgressOf, Finished, Storing, Instruction
<1>4. WriteAddrInv'
  BY <1>1 DEF WriteAddrInv, Storing, Finished, Instruction, OtherStore, Stale,
              StoredTo
<1>5. RecordInv'
  <2> SUFFICES ASSUME NEW t \in Threads PROVE RecordOf(t)'
    BY DEF RecordInv
  <2>1. Recorded(t)' = Recorded(t) /\ SoFar(t)' = SoFar(t)
    BY <1>1, RecordedIsOwn, SoFarNext DEF SoFar
  <2>2. Moved(t) /\ pc' \in [Threads -> Nat \ {0}]
    BY <1>1, <1>2 DEF Moved, TypeInv
  <2> QED BY <1>1, <2>1, <2>2, RecordSame DEF RecordInv
<1>6. FrameInv'
  BY <1>1 DEF FrameInv, trace_header
<1> QED BY <1>2, <1>3, <1>4, <1>5, <1>6 DEF IInv

LEMMA NextIInv == IInv /\ [Next]_vars => IInv'
<1> SUFFICES ASSUME IInv, [Next]_vars PROVE IInv'
  OBVIOUS
<1>1. ASSUME NEW t \in Threads, ThreadStep(t) PROVE IInv'
  BY <1>1, RecordMemIInv, RecordWriteAddrSizeIInv, RecordMemWriteIInv,
     NoStoreIInv DEF ThreadStep
<1>2. CASE Fini
  BY <1>2, FiniIInv
<1>3. CASE UNCHANGED vars
  BY <1>3, StutterIInv
<1> QED BY <1>1, <1>2, <1>3 DEF Next, Exited

LEMMA InitIInv == Init => IInv
<1> SUFFICES ASSUME Init PROVE IInv
  OBVIOUS
<1> DEFINE first  == Record(NoThread, 0, "", 0)
           second == Record(NoThread, 0, "Memory", 0)
<1>1. /\ first \in Lines /\ first.thread = NoThread
      /\ second \in Lines /\ second.thread = NoThread
  BY DEF Record, Lines
<1>2. TraceFile = <<first, second, first>>
  BY DEF Init, trace_header
<1> HIDE DEF first, second
<1>3. TraceFile \in Seq(Lines) /\ Len(TraceFile) = 3
  BY <1>1, <1>2
<1>4. TypeInv
  <2>1. WriteAddr = 0 /\ closed = FALSE
    BY DEF Init
  <2>2. /\ code \in [Threads -> Codes] /\ pc \in [Threads -> Nat \ {0}]
        /\ calls \in [Threads -> Nat]
    BY DEF Init
  <2> QED BY <1>3, <2>1, <2>2 DEF TypeInv
<1>5. \A t \in Threads :
        /\ pc[t] = 1 /\ calls[t] = 0 /\ Len(code[t]) \in Nat
        /\ ~Finished(t) => Len(Reads(Instruction(t))) \in Nat
  <2> SUFFICES ASSUME NEW t \in Threads
               PROVE  /\ pc[t] = 1 /\ calls[t] = 0 /\ Len(code[t]) \in Nat
                      /\ ~Finished(t) => Len(Reads(Instruction(t))) \in Nat
    OBVIOUS
  <2>1. CodeInv /\ pc[t] = 1 /\ calls[t] = 0
    BY DEF Init, CodeInv
  <2>2. Len(code[t]) \in Nat
    BY <2>1, CodeOf
  <2>3. ASSUME ~Finished(t) PROVE Len(Reads(Instruction(t))) \in Nat
    <3>1. 1 \in 1 .. Len(code[t])
      BY <2>1, <2>2, <2>3 DEF Finished
    <3>2. code[t][1] \in Instructions
      BY <2>1, <3>1, CodeOf
    <3> QED BY <2>1, <3>2, Operands DEF Instruction
  <2> QED BY <2>1, <2>2, <2>3
<1>6. \A t \in Threads : ~Storing(t)
  BY <1>5 DEF Storing
<1>7. ProgressInv
  <2>1. \A t \in Threads : ProgressOf(t)
    BY <1>5, <1>6 DEF ProgressOf
  <2> QED BY <2>1 DEF ProgressInv, Init
<1>8. WriteAddrInv
  BY <1>6 DEF WriteAddrInv, Stale, Init
<1>9. RecordInv
  <2> SUFFICES ASSUME NEW t \in Threads PROVE RecordOf(t)
    BY DEF RecordInv
  <2>1. SoFar(t) = <<>>
    <3>1. CodeInv
      BY DEF Init, CodeInv
    <3>2. 1 \in 1 .. Len(code[t]) + 1
      BY <1>5
    <3>3. SoFar(t) = Before(t, 1)
      BY <1>5, <3>1, <3>2, SoFarAtStart DEF SoFar
    <3>4. SubSeq(DueLists(t), 1, 0) = <<>> /\ 1 - 1 = 0
      BY <3>1, ListsOfDue
    <3>5. FlattenSeq(<<>>) = <<>>
      BY FlattenNone
    <3> QED BY <3>3, <3>4, <3>5 DEF Before
  <2>2. Recorded(t) = <<>>
    <3>1. /\ <<>> \in Seq(Lines) /\ Append(<<>>, first) \in Seq(Lines)
          /\ Append(Append(<<>>, first), second) \in Seq(Lines)
          /\ TraceFile = Append(Append(Append(<<>>, first), second), first)
      BY <1>1, <1>2
    <3>2. first.thread # t /\ second.thread # t
      BY <1>1, PinTraceAssumption
    <3>3. Own(t, Append(<<>>, first)) = <<>>
      <4>1. PICK empty : empty = <<>>
        OBVIOUS
      <4>2. empty \in Seq(Lines) /\ Own(t, empty) = <<>>
        BY <3>1, <4>1, OwnNothing
      <4>3. Own(t, Append(empty, first)) = <<>>
        BY <1>1, <3>2, <4>2, OwnAppend
      <4> QED BY <4>1, <4>3
    <3>4. Own(t, Append(Append(<<>>, first), second)) = <<>>
      BY <1>1, <3>1, <3>2, <3>3, OwnAppend
    <3>5. Own(t, TraceFile) = <<>>
      <4>1. first \in Lines
        BY <1>1
      <4> QED BY <3>1, <3>2, <3>4, <4>1, OwnAppend, Zenon
    <3> QED BY <3>5, RecordedIsOwn
  <2>3. Len(<<>>) = 0
    OBVIOUS
  <2> QED BY <2>1, <2>2, <2>3 DEF RecordOf
<1>10. FrameInv
  BY <1>3 DEF Init, FrameInv
<1> QED BY <1>4, <1>7, <1>8, <1>9, <1>10 DEF IInv

-----------------------------------------------------------------------------
(* The results *)

(* Where each thread is, what it has recorded, whose address WriteAddr is, *)
(* and the shape of the file.                                              *)
THEOREM PinTraceInvariance == Spec => []IInv
<1>1. Init => IInv
  BY InitIInv
<1>2. IInv /\ [Next]_vars => IInv'
  BY NextIInv
<1> QED BY <1>1, <1>2, PTL DEF Spec

LEMMA RecordedLines ==
  ASSUME IInv, NEW t \in Threads
  PROVE  /\ Recorded(t) \in Seq(Lines) /\ SoFar(t) \in Seq(Lines)
         /\ Due(t) \in Seq(Lines) /\ Len(SoFar(t)) <= Len(Due(t))
         /\ DOMAIN Recorded(t) = 1 .. Len(SoFar(t))
         /\ Len(Recorded(t)) = Len(SoFar(t))
         /\ \A k \in 1 .. Len(SoFar(t)) :
              /\ SoFar(t)[k] = Due(t)[k]
              /\ MixedUp(t, Recorded(t)[k], Due(t)[k])
<1>1. /\ TypeInv /\ ProgressInv /\ RecordOf(t)
  BY DEF IInv, RecordInv
<1>2. SoFar(t) \in Seq(Lines) /\ IsPrefix(SoFar(t), Due(t))
  BY <1>1, SoFarType
<1>3. Due(t) \in Seq(Lines)
  BY <1>1, BeforeAll DEF TypeInv, CodeInv
<1>4. /\ Len(SoFar(t)) <= Len(Due(t))
      /\ \A k \in 1 .. Len(SoFar(t)) : SoFar(t)[k] = Due(t)[k]
  BY <1>2, <1>3, PrefixElements
<1>5. Recorded(t) \in Seq(Lines)
  <2>1. trace_footer[1] \in Lines /\ TraceFile \in Seq(Lines)
    BY <1>1, FooterLine DEF TypeInv
  <2> QED BY <2>1, OwnAppend, RecordedIsOwn
<1>6. Len(Recorded(t)) = Len(SoFar(t))
  BY <1>1 DEF RecordOf
<1>7. DOMAIN Recorded(t) = 1 .. Len(SoFar(t))
  BY <1>5, <1>6
<1>8. \A k \in 1 .. Len(SoFar(t)) :
        MixedUp(t, Recorded(t)[k], Due(t)[k])
  BY <1>1, <1>4 DEF RecordOf
<1> QED BY <1>2, <1>3, <1>4, <1>5, <1>6, <1>7, <1>8

LEMMA IInvOnlyStores == IInv => OnlyStoresAreMixedUp
<1> SUFFICES ASSUME IInv, NEW t \in Threads
             PROVE  /\ Len(Recorded(t)) <= Len(Due(t))
                    /\ \A k \in DOMAIN Recorded(t) :
                         MixedUp(t, Recorded(t)[k], Due(t)[k])
  BY DEF OnlyStoresAreMixedUp, MixedUp, OtherStore, Stale
<1> QED BY RecordedLines

(* However the threads' calls interleave, each thread's accesses are       *)
(* recorded in its order, and only the address of a store can be another   *)
(* one: that of another thread's store, or of any store at all if it was   *)
(* not executed.                                                           *)
THEOREM OnlyStoresAreMixedUpHolds == Spec => []OnlyStoresAreMixedUp
<1> QED BY PinTraceInvariance, IInvOnlyStores, PTL

LEMMA IInvSingleThread == IInv => SingleThreadAccessesAreExact
<1> DEFINE t == MainThread
           lines == Recorded(t)
           s == SoFar(t)
<1> SUFFICES ASSUME IInv, \A u \in Threads \ {t} : code[u] = <<>>
             PROVE  /\ Len(lines) <= Len(Due(t))
                    /\ closed => Len(lines) = Len(Due(t))
                    /\ \A k \in DOMAIN lines :
                         IF Due(t)[k].addr = NoAddress
                           THEN /\ lines[k].op = Due(t)[k].op
                                /\ lines[k].ip = Due(t)[k].ip
                           ELSE lines[k] = Due(t)[k]
  BY DEF SingleThreadAccessesAreExact
<1>1. t \in Threads
  BY PinTraceAssumption
<1>2. /\ Len(s) <= Len(Due(t)) /\ Len(lines) = Len(s)
      /\ DOMAIN lines = 1 .. Len(s)
      /\ \A k \in 1 .. Len(s) : MixedUp(t, lines[k], Due(t)[k])
  BY <1>1, RecordedLines
<1>3. \A x : ~OtherStore(t, x)
  BY DEF OtherStore, StoredTo
<1>4. closed => s = Due(t)
  <2>1. closed => Finished(t)
    BY DEF IInv, ProgressInv
  <2> QED BY <2>1 DEF SoFar, SoFarAt, Finished
<1> HIDE DEF lines, s, t
<1>5. \A k \in 1 .. Len(s) :
        IF Due(t)[k].addr = NoAddress
          THEN lines[k].op = Due(t)[k].op /\ lines[k].ip = Due(t)[k].ip
          ELSE lines[k] = Due(t)[k]
  BY <1>2, <1>3 DEF MixedUp
<1> QED BY <1>2, <1>4, <1>5

(* Of a program of one thread the trace has every access at its address,   *)
(* and when the file is closed it has all of them; a line that is no       *)
(* access it has only for a store that was not executed.                   *)
THEOREM SingleThreadAccessesAreExactHolds ==
  Spec => []SingleThreadAccessesAreExact
<1> QED BY PinTraceInvariance, IInvSingleThread, PTL

LEMMA IInvFramed == IInv => TraceIsFramed
<1> SUFFICES ASSUME IInv, closed
             PROVE  /\ SubSeq(TraceFile, 1, 3) = trace_header
                    /\ Last(TraceFile).thread = NoThread
                    /\ \A k \in 4 .. Len(TraceFile) - 1 :
                         TraceFile[k].op \in {"R", "W"}
  BY DEF TraceIsFramed
<1>1. TraceFile \in Seq(Lines) /\ FrameInv /\ Len(TraceFile) \in Nat
  BY DEF IInv, TypeInv
<1>2. /\ Len(TraceFile) >= 3
      /\ \A k \in 1 .. 3 : TraceFile[k] = trace_header[k]
      /\ TraceFile[Len(TraceFile)].thread = NoThread
      /\ \A k \in 4 .. Len(TraceFile) :
           TraceFile[k].op \in {"R", "W"} \/ k = Len(TraceFile)
  BY <1>1 DEF FrameInv
<1>3. SubSeq(TraceFile, 1, 3) = trace_header
  <2> DEFINE h == SubSeq(TraceFile, 1, 3)
  <2>1. h \in Seq(Lines) /\ Len(h) = 3 /\ \A k \in 1 .. 3 : h[k] = TraceFile[k]
    BY <1>1, <1>2
  <2> HIDE DEF h
  <2>2. h = <<h[1], h[2], h[3]>>
    BY <2>1
  <2>3. trace_header = <<trace_header[1], trace_header[2], trace_header[3]>>
    BY DEF trace_header
  <2>4. h[1] = trace_header[1] /\ h[2] = trace_header[2] /\ h[3] = trace_header[3]
    BY <1>2, <2>1
  <2>5. h = trace_header
    BY <2>2, <2>3, <2>4
  <2> QED BY <2>5 DEF h
<1>4. \A k \in 4 .. Len(TraceFile) - 1 : TraceFile[k].op \in {"R", "W"}
  BY <1>1, <1>2
<1> QED BY <1>2, <1>3, <1>4 DEF Last

(* A closed trace has its header, its records and its footer, in this      *)
(* order, whichever threads were still running when the program ended.     *)
THEOREM TraceIsFramedHolds == Spec => []TraceIsFramed
<1> QED BY PinTraceInvariance, IInvFramed, PTL
=============================================================================
