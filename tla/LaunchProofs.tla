---------------------------- MODULE LaunchProofs ----------------------------
(***************************************************************************)
(* Proofs about the start of the program: for any size of the memory, any  *)
(* generator and any complete recording.                                   *)
(*                                                                         *)
(* IInv is about the drawing loop.  For the reading loop the words of the  *)
(* file that real.sh makes are determined first (SequenceLemmas has what   *)
(* FlattenSeq does); Loading then says how far the reader is in them.      *)
(***************************************************************************)
EXTENDS Launch, SequenceLemmas, TLAPS

-----------------------------------------------------------------------------
(* The drawing loop's arithmetic *)

LEMMA OperationsAreNat == N_OPERATIONS \in Nat
<1>1. MemFactor * MemUnit \in Nat
  BY LaunchAssumption
<1> QED BY <1>1 DEF N_OPERATIONS

LEMMA Multiples == \A a \in Nat, b \in Nat \ {0} : (a * b) % b = 0
  OBVIOUS

LEMMA RandomAddresses ==
  ASSUME NEW number \in Numbers
  PROVE  RandomAddress(number) \in Nat /\ RandomAddress(number) < MEM_SIZE
         /\ RandomAddress(number) % MemUnit = 0
<1> DEFINE a == number % MemFactor
<1>1. a \in Nat /\ a < MemFactor
  BY LaunchAssumption
<1>2. RandomAddress(number) = a * MemUnit
  BY DEF RandomAddress
<1> HIDE DEF a
<1>3. a * MemUnit \in Nat /\ a * MemUnit < MemFactor * MemUnit
  BY <1>1, LaunchAssumption
<1>4. (a * MemUnit) % MemUnit = 0
  BY <1>1, LaunchAssumption, Multiples
<1> QED BY <1>2, <1>3, <1>4 DEF MEM_SIZE

(* The request drawn in turn i. *)
IsDrawn(r) ==
  \E first, second, third \in Numbers :
    r = [request |-> IF Drawn(first, params.read_req_prob)
                       THEN "READ" ELSE "WRITE",
         address |-> (IF Drawn(second, params.random_access_prob)
                        THEN RandomAddress(third) ELSE i) % AddressLimit]

LEMMA DrawnRequest ==
  ASSUME NEW r, IsDrawn(r), i \in Nat,
         params.read_req_prob \in Nat, params.random_access_prob \in Nat
  PROVE  /\ r \in Access
         /\ params.read_req_prob >= 100 => r.request = "READ"
         /\ params.read_req_prob = 0 => r.request = "WRITE"
         /\ params.random_access_prob = 0 => r.address = i % AddressLimit
         /\ params.random_access_prob >= 100 => r.address % MemUnit = 0
<1>1. PICK first \in Numbers, second \in Numbers, third \in Numbers :
        r = [request |-> IF Drawn(first, params.read_req_prob)
                           THEN "READ" ELSE "WRITE",
             address |-> (IF Drawn(second, params.random_access_prob)
                            THEN RandomAddress(third) ELSE i) % AddressLimit]
  BY DEF IsDrawn
<1>2. \A n \in Numbers :
        /\ ~Drawn(n, 0) /\ \A p \in Nat : p >= 100 => Drawn(n, p)
  BY LaunchAssumption DEF Drawn
<1>3. /\ RandomAddress(third) \in Nat
      /\ RandomAddress(third) < MEM_SIZE
      /\ RandomAddress(third) % MemUnit = 0
  BY RandomAddresses
<1>4. MEM_SIZE \in Nat /\ MEM_SIZE <= AddressLimit
  BY LaunchAssumption DEF MEM_SIZE
<1>5. RandomAddress(third) % AddressLimit = RandomAddress(third)
  BY <1>3, <1>4, LaunchAssumption
<1>6. i % AddressLimit \in 0 .. AddressLimit - 1
  BY LaunchAssumption
<1>7. RandomAddress(third) \in 0 .. AddressLimit - 1
  BY <1>3, <1>4, LaunchAssumption
<1> DEFINE address == (IF Drawn(second, params.random_access_prob)
                         THEN RandomAddress(third) ELSE i) % AddressLimit
<1>8. /\ address \in 0 .. AddressLimit - 1
      /\ params.random_access_prob = 0 => address = i % AddressLimit
      /\ params.random_access_prob >= 100 => address % MemUnit = 0
  BY <1>2, <1>3, <1>5, <1>6, <1>7
<1> HIDE DEF address
<1>9. r = [request |-> IF Drawn(first, params.read_req_prob)
                         THEN "READ" ELSE "WRITE",
           address |-> address]
  BY <1>1 DEF address
<1> QED BY <1>2, <1>8, <1>9 DEF Access

-----------------------------------------------------------------------------
(* The inductive invariant *)

IInv == TypeOK /\ Drawing

LEMMA InitIInv == Init => IInv
<1> SUFFICES ASSUME Init PROVE IInv
  OBVIOUS
<1>1. TypeOK
  BY OperationsAreNat DEF Init, TypeOK
<1>2. phase = "parsing" /\ test_requests = <<>> /\ i = 0
  BY DEF Init
<1>3. params.read_req_prob = 0 /\ params.random_access_prob = 0
  BY DEF Init, NoParameters
<1>4. Drawing
  BY <1>2, <1>3 DEF Drawing
<1> QED BY <1>1, <1>4 DEF IInv

LEMMA AcceptedParameters ==
  ASSUME TypeOK, Accepted
  PROVE  params'.read_req_prob \in Nat /\ params'.random_access_prob \in Nat
  BY ParametersAssumption DEF TypeOK, Accepted, CommandLines, parseCommand

LEMMA DrawRequestIInv ==
  ASSUME IInv, DrawRequest
  PROVE  IInv'
<1>0. /\ test_requests \in Seq(Access) /\ i \in Nat /\ i < N_OPERATIONS
      /\ N_OPERATIONS \in Nat /\ Len(test_requests) = i
      /\ params.read_req_prob \in Nat /\ params.random_access_prob \in Nat
      /\ phase = "drawing" /\ params.cpu_access = "STOCHASTIC"
  BY OperationsAreNat DEF IInv, TypeOK, Drawing, DrawRequest
<1>1. PICK r : IsDrawn(r) /\ test_requests' = Append(test_requests, r)
  BY DEF DrawRequest, IsDrawn
<1>2. i' = i + 1 /\ UNCHANGED <<phase, argv, pinatrace_out, flow, params, file>>
  BY DEF DrawRequest
<1>3. /\ r \in Access
      /\ params.read_req_prob >= 100 => r.request = "READ"
      /\ params.read_req_prob = 0 => r.request = "WRITE"
      /\ params.random_access_prob = 0 => r.address = i % AddressLimit
      /\ params.random_access_prob >= 100 => r.address % MemUnit = 0
  BY <1>0, <1>1, DrawnRequest
<1>4. TypeOK'
  BY <1>0, <1>1, <1>2, <1>3 DEF IInv, TypeOK
<1>5. /\ Len(test_requests') = i + 1
      /\ \A k \in DOMAIN test_requests' :
           \/ k \in DOMAIN test_requests /\ test_requests'[k] = test_requests[k]
           \/ k - 1 = i /\ test_requests'[k] = r
  BY <1>0, <1>1, <1>3
<1>6. \A k \in DOMAIN test_requests' :
        LET q == test_requests'[k]
        IN  /\ params.read_req_prob >= 100 => q.request = "READ"
            /\ params.read_req_prob = 0 => q.request = "WRITE"
            /\ params.random_access_prob = 0 =>
                 q.address = (k - 1) % AddressLimit
            /\ params.random_access_prob >= 100 => q.address % MemUnit = 0
  BY <1>0, <1>3, <1>5 DEF IInv, Drawing
<1>7. Drawing'
  BY <1>0, <1>2, <1>5, <1>6 DEF Drawing
<1> QED BY <1>4, <1>7 DEF IInv

LEMMA NextIInv == IInv /\ [Next]_vars => IInv'
<1> SUFFICES ASSUME IInv, [Next]_vars PROVE IInv'
  OBVIOUS
<1>0. TypeOK /\ Drawing
  BY DEF IInv
<1>1. CASE Reject
  <2>1. /\ phase = "parsing" /\ phase' \in {"usage", "undefined"}
        /\ UNCHANGED <<argv, params, i, test_requests>>
    BY <1>1 DEF Reject
  <2>2. TypeOK'
    BY <1>0, <2>1 DEF TypeOK
  <2>3. Drawing'
    BY <1>0, <2>1 DEF Drawing
  <2> QED BY <2>2, <2>3 DEF IInv
<1>2. CASE StartDrawing
  <2>1. TypeOK'
    BY <1>0, <1>2 DEF StartDrawing, TypeOK
  <2>2. /\ phase = "parsing" /\ phase' = "drawing"
        /\ params'.cpu_access = "STOCHASTIC"
        /\ test_requests' = <<>> /\ i' = 0
    BY <1>0, <1>2 DEF StartDrawing, Accepted, Drawing
  <2>3. Drawing'
    BY <1>0, <1>2, <2>2, AcceptedParameters DEF StartDrawing, Drawing
  <2> QED BY <2>1, <2>3 DEF IInv
<1>3. CASE OpenFile
  <2>1. TypeOK'
    BY <1>0, <1>3 DEF OpenFile, TypeOK
  <2>2. phase' = "reading" /\ params'.cpu_access = "REAL"
    BY <1>3 DEF OpenFile
  <2>3. Drawing'
    BY <1>0, <1>3, <2>2, AcceptedParameters DEF OpenFile, Drawing
  <2> QED BY <2>1, <2>3 DEF IInv
<1>4. CASE DrawRequest
  BY <1>4, DrawRequestIInv
<1>5. CASE ReadRequest
  <2> DEFINE r == [request |-> IF file[1].text = "R" THEN "READ" ELSE "WRITE",
                   address |-> file[2].value]
  <2>1. r \in Access
    BY <1>5 DEF ReadRequest, RequestAhead, Access
  <2>2. /\ test_requests' = Append(test_requests, r) /\ phase = "reading"
        /\ UNCHANGED <<phase, argv, pinatrace_out, flow, params, i>>
    BY <1>5 DEF ReadRequest
  <2> HIDE DEF r
  <2>3. TypeOK'
    BY <1>0, <2>1, <2>2 DEF TypeOK
  <2>4. Drawing'
    BY <1>0, <2>2 DEF Drawing
  <2> QED BY <2>3, <2>4 DEF IInv
<1>6. CASE ListComplete
  BY <1>0, <1>6 DEF ListComplete, IInv, TypeOK, Drawing
<1>7. CASE UNCHANGED vars
  BY <1>0, <1>7 DEF vars, IInv, TypeOK, Drawing
<1> QED BY <1>1, <1>2, <1>3, <1>4, <1>5, <1>6, <1>7 DEF Next, Done

-----------------------------------------------------------------------------
(* What real.sh makes of a recording *)

Ops == {Blank, "Memory", "R", "W"}

Lines == [ip : Nat, op : Ops, addr : Nat]

FileLines == [op : Ops, addr : 0 .. AddressLimit - 1]

LEMMA NotBlank == "Memory" # Blank /\ "R" # Blank /\ "W" # Blank
  BY DEF Blank

LEMMA Remainders ==
  ASSUME NEW a \in Nat, NEW b \in Nat \ {0}
  PROVE  a % b \in Nat /\ a % b < b /\ (a = 0 => a % b = 0)
<1>1. a % b \in Nat /\ a % b < b
  OBVIOUS
<1>2. 0 % b = 0
  OBVIOUS
<1> QED BY <1>1, <1>2

LEMMA LineType ==
  ASSUME NEW op \in Ops, NEW addr \in Nat
  PROVE  /\ Line(op, addr) \in FileLines /\ Line(op, addr).op = op
         /\ addr = 0 => Line(op, addr).addr = 0
<1>1. /\ AddressModulus \in Nat \ {0} /\ AddressModulus \in Nat
      /\ AddressLimit \in Nat /\ AddressModulus <= AddressLimit
  BY LaunchAssumption, TraceFilesAssumption
<1>2. PICK a : a = addr % AddressModulus
  OBVIOUS
<1>3. a \in Nat /\ a < AddressModulus
  BY <1>1, <1>2, Remainders
<1>4. addr = 0 => a = 0
  BY <1>1, <1>2, Remainders
<1>5. a \in 0 .. AddressLimit - 1
  BY <1>1, <1>3
<1> QED BY <1>2, <1>4, <1>5 DEF Line, FileLines

(* The line that awk prints for a line, if only one flow is wanted. *)
OneLine(f, line) ==
  IF f = "i" THEN Line("R", line.ip) ELSE Line(line.op, line.addr)

LEMMA PrintedLines ==
  ASSUME NEW line \in Lines
  PROVE  /\ \A f \in {"i", "d"} : Printed(f, line) = <<OneLine(f, line)>>
         /\ Printed("t", line)
              = <<Line("R", line.ip), Line(line.op, line.addr)>>
         /\ \A f \in {"i", "d"} : OneLine(f, line) \in FileLines
         /\ Line("R", line.ip) \in FileLines
         /\ Line(line.op, line.addr) \in FileLines
<1>1. /\ line.ip \in Nat /\ line.addr \in Nat
      /\ line.op \in Ops
  BY DEF Lines
<1>2. Line("R", line.ip) \in FileLines /\ Line(line.op, line.addr) \in FileLines
  <2>1. "R" \in Ops
    BY DEF Ops
  <2> QED BY <1>1, <2>1, LineType
<1>3. \A f \in {"i", "d"} : Printed(f, line) = <<OneLine(f, line)>>
  BY DEF Printed, OneLine
<1>4. Printed("t", line) = <<Line("R", line.ip), Line(line.op, line.addr)>>
  BY DEF Printed
<1> QED BY <1>2, <1>3, <1>4 DEF OneLine

(* One flow: a line for each line. *)
LEMMA awkOneFlow ==
  ASSUME NEW f \in {"i", "d"}, NEW trace \in Seq(Lines)
  PROVE  /\ awk(f, trace) \in Seq(FileLines)
         /\ Len(awk(f, trace)) = Len(trace)
         /\ \A k \in 1 .. Len(trace) : awk(f, trace)[k] = OneLine(f, trace[k])
<1> DEFINE n == Len(trace)
           seqs == [k \in 1 .. n |-> Printed(f, trace[k])]
<1>1. n \in Nat /\ DOMAIN trace = 1 .. n
  OBVIOUS
<1>2. \A k \in 1 .. n : /\ trace[k] \in Lines
                        /\ Printed(f, trace[k]) = <<OneLine(f, trace[k])>>
                        /\ OneLine(f, trace[k]) \in FileLines
  BY PrintedLines
<1>3. awk(f, trace) = FlattenSeq(seqs)
  BY <1>1 DEF awk
<1>4. \A k \in 1 .. n : /\ seqs[k] = <<OneLine(f, trace[k])>>
                        /\ seqs[k] \in Seq(FileLines)
                        /\ Len(seqs[k]) = 1
                        /\ seqs[k][1] = OneLine(f, trace[k])
  <2> SUFFICES ASSUME NEW k \in 1 .. n
               PROVE  /\ seqs[k] = <<OneLine(f, trace[k])>>
                      /\ seqs[k] \in Seq(FileLines)
                      /\ Len(seqs[k]) = 1
                      /\ seqs[k][1] = OneLine(f, trace[k])
    OBVIOUS
  <2>1. seqs[k] = <<OneLine(f, trace[k])>> /\ OneLine(f, trace[k]) \in FileLines
    BY <1>2
  <2> HIDE DEF seqs, n
  <2> QED BY <2>1
<1>5. Len(seqs) = n
  BY <1>1
<1>6. seqs \in Seq(Seq(FileLines))
  BY <1>1, <1>4
<1> HIDE DEF seqs
<1>7. /\ FlattenSeq(seqs) \in Seq(FileLines)
      /\ Len(FlattenSeq(seqs)) = Len(seqs)
      /\ \A k \in 1 .. Len(seqs) : FlattenSeq(seqs)[k] = seqs[k][1]
  <2>1. \A k \in 1 .. Len(seqs) : Len(seqs[k]) = 1
    BY <1>4, <1>5
  <2> QED BY <1>6, <2>1, FlattenOnes
<1> QED BY <1>3, <1>4, <1>5, <1>7

(* Both flows: two lines for each line. *)
LEMMA awkBothFlows ==
  ASSUME NEW trace \in Seq(Lines)
  PROVE  /\ awk("t", trace) \in Seq(FileLines)
         /\ Len(awk("t", trace)) = 2 * Len(trace)
         /\ \A k \in 1 .. Len(trace) :
              /\ awk("t", trace)[2 * k - 1] = Line("R", trace[k].ip)
              /\ awk("t", trace)[2 * k] = Line(trace[k].op, trace[k].addr)
<1> DEFINE n == Len(trace)
           seqs == [k \in 1 .. n |-> Printed("t", trace[k])]
           first(k) == Line("R", trace[k].ip)
           second(k) == Line(trace[k].op, trace[k].addr)
<1>1. n \in Nat /\ DOMAIN trace = 1 .. n
  OBVIOUS
<1>2. \A k \in 1 .. n : /\ trace[k] \in Lines
                        /\ Printed("t", trace[k]) = <<first(k), second(k)>>
                        /\ first(k) \in FileLines /\ second(k) \in FileLines
  BY PrintedLines
<1>3. awk("t", trace) = FlattenSeq(seqs)
  BY <1>1 DEF awk
<1>4. \A k \in 1 .. n : /\ seqs[k] \in Seq(FileLines)
                        /\ Len(seqs[k]) = 2
                        /\ seqs[k][1] = first(k) /\ seqs[k][2] = second(k)
  <2> SUFFICES ASSUME NEW k \in 1 .. n
               PROVE  /\ seqs[k] \in Seq(FileLines)
                      /\ Len(seqs[k]) = 2
                      /\ seqs[k][1] = first(k) /\ seqs[k][2] = second(k)
    OBVIOUS
  <2>1. /\ seqs[k] = <<first(k), second(k)>>
        /\ first(k) \in FileLines /\ second(k) \in FileLines
    BY <1>2
  <2> HIDE DEF seqs, n, first, second
  <2> QED BY <2>1
<1>5. Len(seqs) = n
  BY <1>1
<1>6. seqs \in Seq(Seq(FileLines))
  BY <1>1, <1>4
<1> HIDE DEF seqs
<1>7. /\ FlattenSeq(seqs) \in Seq(FileLines)
      /\ Len(FlattenSeq(seqs)) = 2 * Len(seqs)
      /\ \A k \in 1 .. Len(seqs) : /\ FlattenSeq(seqs)[2 * k - 1] = seqs[k][1]
                                   /\ FlattenSeq(seqs)[2 * k] = seqs[k][2]
  <2>1. \A k \in 1 .. Len(seqs) : Len(seqs[k]) = 2
    BY <1>4, <1>5
  <2> QED BY <1>6, <2>1, FlattenPairs
<1> QED BY <1>3, <1>4, <1>5, <1>7

-----------------------------------------------------------------------------
(* The words of a trace file *)

FileWords == {Word(text) : text \in Ops}
               \cup {Number(addr) : addr \in 0 .. AddressLimit - 1}

WordsOf(line) ==
  IF line.op = Blank THEN <<Number(line.addr)>>
                  ELSE <<Word(line.op), Number(line.addr)>>

LEMMA WordsOfType ==
  ASSUME NEW line \in FileLines
  PROVE  /\ WordsOf(line) \in Seq(FileWords)
         /\ line.op # Blank =>
              /\ Len(WordsOf(line)) = 2
              /\ WordsOf(line)[1] = Word(line.op)
              /\ WordsOf(line)[2] = Number(line.addr)
<1>1. Word(line.op) \in FileWords /\ Number(line.addr) \in FileWords
  BY DEF FileLines, FileWords
<1>2. <<Number(line.addr)>> \in Seq(FileWords)
  BY <1>1
<1>3. <<Word(line.op), Number(line.addr)>> \in Seq(FileWords)
  BY <1>1
<1> QED BY <1>2, <1>3 DEF WordsOf

LEMMA WordsAreFlat ==
  ASSUME NEW lines \in Seq(FileLines)
  PROVE  \E seqs \in Seq(Seq(FileWords)) :
           /\ Words(lines) = FlattenSeq(seqs) /\ Len(seqs) = Len(lines)
           /\ \A k \in 1 .. Len(lines) : seqs[k] = WordsOf(lines[k])
<1> DEFINE n == Len(lines)
           seqs == [k \in 1 .. n |-> WordsOf(lines[k])]
<1>1. n \in Nat /\ DOMAIN lines = 1 .. n
  OBVIOUS
<1>2. \A k \in 1 .. n : WordsOf(lines[k]) \in Seq(FileWords)
  <2> SUFFICES ASSUME NEW k \in 1 .. n
               PROVE  WordsOf(lines[k]) \in Seq(FileWords)
    OBVIOUS
  <2>1. lines[k] \in FileLines
    BY SeqElement
  <2> QED BY <2>1, WordsOfType
<1>3. seqs \in Seq(Seq(FileWords)) /\ Len(seqs) = n
  BY <1>1, <1>2
<1>4. Words(lines) = FlattenSeq(seqs)
  BY <1>1 DEF Words, WordsOf
<1> QED BY <1>3, <1>4

(* Lines that all have a kind of access: two words each. *)
LEMMA WordsOfRecords ==
  ASSUME NEW lines \in Seq(FileLines),
         \A k \in 1 .. Len(lines) : lines[k].op # Blank
  PROVE  /\ Len(Words(lines)) = 2 * Len(lines)
         /\ Words(lines) \in Seq(FileWords)
         /\ \A k \in 1 .. Len(lines) :
              /\ Words(lines)[2 * k - 1] = Word(lines[k].op)
              /\ Words(lines)[2 * k] = Number(lines[k].addr)
<1>1. PICK seqs \in Seq(Seq(FileWords)) :
        /\ Words(lines) = FlattenSeq(seqs) /\ Len(seqs) = Len(lines)
        /\ \A k \in 1 .. Len(lines) : seqs[k] = WordsOf(lines[k])
  BY WordsAreFlat
<1>2. \A k \in 1 .. Len(lines) :
        /\ Len(seqs[k]) = 2 /\ seqs[k][1] = Word(lines[k].op)
        /\ seqs[k][2] = Number(lines[k].addr)
  <2> SUFFICES ASSUME NEW k \in 1 .. Len(lines)
               PROVE  /\ Len(seqs[k]) = 2 /\ seqs[k][1] = Word(lines[k].op)
                      /\ seqs[k][2] = Number(lines[k].addr)
    OBVIOUS
  <2>1. lines[k] \in FileLines /\ lines[k].op # Blank
    BY SeqElement
  <2> QED BY <1>1, <2>1, WordsOfType
<1>3. \A k \in 1 .. Len(seqs) : Len(seqs[k]) = 2
  BY <1>1, <1>2
<1>4. /\ FlattenSeq(seqs) \in Seq(FileWords)
      /\ Len(FlattenSeq(seqs)) = 2 * Len(seqs)
      /\ \A k \in 1 .. Len(seqs) : /\ FlattenSeq(seqs)[2 * k - 1] = seqs[k][1]
                                   /\ FlattenSeq(seqs)[2 * k] = seqs[k][2]
  BY <1>3, FlattenPairs
<1> QED BY <1>1, <1>2, <1>4

LEMMA WordsType ==
  ASSUME NEW lines \in Seq(FileLines)
  PROVE  Words(lines) \in Seq(FileWords)
  BY WordsAreFlat, FlattenType

Request(r) == [request |-> r, address |-> 0]

(* Two words less. *)
LEMMA TwoLess ==
  ASSUME NEW S, NEW s \in Seq(S), Len(s) >= 2
  PROVE  LET rest == SubSeq(s, 3, Len(s))
         IN  /\ rest \in Seq(S) /\ Len(s) \in Nat /\ Len(rest) = Len(s) - 2
             /\ \A k \in 1 .. Len(s) - 2 : rest[k] = s[k + 2]
<1> DEFINE m == Len(s)
           rest == SubSeq(s, 3, m)
<1>1. m \in Nat /\ m >= 2
  OBVIOUS
<1>2. rest \in Seq(S)
  OBVIOUS
<1>3. Len(rest) = IF 3 <= m THEN m - 3 + 1 ELSE 0
  BY <1>1
<1>4. Len(rest) = m - 2
  <2> HIDE DEF m, rest
  <2> QED BY <1>1, <1>3
<1>5. \A k \in 1 .. m - 2 : rest[k] = s[k + 2]
  <2>1. \A k \in 1 .. m - 2 : k \in 1 .. m - 3 + 1 /\ 3 + k - 1 = k + 2
    <3> HIDE DEF m
    <3> QED BY <1>1
  <2>2. \A k \in 1 .. m - 3 + 1 : rest[k] = s[3 + k - 1]
    BY <1>1
  <2> QED BY <2>1, <2>2
<1> QED BY <1>1, <1>2, <1>4, <1>5

(* Two words more, or one. *)
LEMMA TwoMore ==
  ASSUME NEW S, NEW s \in Seq(S), NEW x \in S, NEW y \in S
  PROVE  /\ s \o <<x, y>> \in Seq(S) /\ Len(s \o <<x, y>>) = Len(s) + 2
         /\ \A k \in 1 .. Len(s) : (s \o <<x, y>>)[k] = s[k]
         /\ (s \o <<x, y>>)[Len(s) + 1] = x
         /\ (s \o <<x, y>>)[Len(s) + 2] = y
  OBVIOUS

LEMMA OneMore ==
  ASSUME NEW S, NEW s \in Seq(S), NEW x \in S
  PROVE  /\ s \o <<x>> \in Seq(S) /\ Len(s \o <<x>>) = Len(s) + 1
         /\ \A k \in 1 .. Len(s) : (s \o <<x>>)[k] = s[k]
         /\ (s \o <<x>>)[Len(s) + 1] = x
  OBVIOUS

LEMMA SevenWords ==
  ASSUME NEW S, NEW M \in S, NEW R \in S, NEW Z \in S, NEW last \in S,
         NEW s0 \in Seq(S), Len(s0) = 0, NEW s1, s1 = s0 \o <<M, Z>>,
         NEW s2, s2 = s1 \o <<R, Z>>, NEW s3, s3 = s2 \o <<Z>>,
         NEW s4, s4 = s3 \o <<R, last>>
  PROVE  /\ s4 \in Seq(S) /\ Len(s4) = 7
         /\ s4[1] = M /\ s4[2] = Z /\ s4[3] = R
         /\ s4[4] = Z /\ s4[5] = Z /\ s4[6] = R
<1>1. s1 \in Seq(S) /\ Len(s1) = 2 /\ s1[1] = M /\ s1[2] = Z
  BY TwoMore
<1>2. /\ s2 \in Seq(S) /\ Len(s2) = 4
      /\ s2[1] = M /\ s2[2] = Z /\ s2[3] = R /\ s2[4] = Z
  <2>1. /\ s2 \in Seq(S) /\ Len(s2) = 2 + 2
        /\ \A k \in 1 .. 2 : s2[k] = s1[k]
        /\ s2[2 + 1] = R /\ s2[2 + 2] = Z
    BY <1>1, TwoMore
  <2> QED BY <1>1, <2>1
<1>3. /\ s3 \in Seq(S) /\ Len(s3) = 5 /\ s3[1] = M /\ s3[2] = Z
      /\ s3[3] = R /\ s3[4] = Z /\ s3[5] = Z
  <2>1. /\ s3 \in Seq(S) /\ Len(s3) = 4 + 1
        /\ \A k \in 1 .. 4 : s3[k] = s2[k]
        /\ s3[4 + 1] = Z
    BY <1>2, OneMore
  <2> QED BY <1>2, <2>1
<1>4. /\ s4 \in Seq(S) /\ Len(s4) = 5 + 2
      /\ \A k \in 1 .. 5 : s4[k] = s3[k]
      /\ s4[5 + 1] = R
  BY <1>3, TwoMore
<1> QED BY <1>3, <1>4

(* What both flows leave of the header: a word is missing in the third     *)
(* line.                                                                   *)
LEMMA WordsOfHeader ==
  ASSUME NEW lines \in Seq(FileLines), Len(lines) >= 4,
         lines[1].op = "Memory", lines[1].addr = 0,
         lines[2].op = "R", lines[2].addr = 0,
         lines[3].op = Blank, lines[3].addr = 0, lines[4].op = "R"
  PROVE  /\ Words(lines) \in Seq(FileWords) /\ Len(Words(lines)) >= 6
         /\ Words(lines)[1] = Word("Memory") /\ Words(lines)[2] = Number(0)
         /\ Words(lines)[3] = Word("R") /\ Words(lines)[4] = Number(0)
         /\ Words(lines)[5] = Number(0) /\ Words(lines)[6] = Word("R")
<1>1. PICK seqs \in Seq(Seq(FileWords)) :
        /\ Words(lines) = FlattenSeq(seqs) /\ Len(seqs) = Len(lines)
        /\ \A k \in 1 .. Len(lines) : seqs[k] = WordsOf(lines[k])
  BY WordsAreFlat
<1> DEFINE Flat(m) == FlattenSeq(SubSeq(seqs, 1, m))
           M == Word("Memory")
           R == Word("R")
           Z == Number(0)
           last == Number(lines[4].addr)
<1>2. /\ seqs[1] = <<M, Z>> /\ seqs[2] = <<R, Z>> /\ seqs[3] = <<Z>>
      /\ seqs[4] = <<R, last>>
  <2>1. 1 \in 1 .. Len(lines) /\ 2 \in 1 .. Len(lines)
        /\ 3 \in 1 .. Len(lines) /\ 4 \in 1 .. Len(lines)
    OBVIOUS
  <2>2. /\ seqs[1] = WordsOf(lines[1]) /\ seqs[2] = WordsOf(lines[2])
        /\ seqs[3] = WordsOf(lines[3]) /\ seqs[4] = WordsOf(lines[4])
    BY <1>1, <2>1
  <2>3. /\ WordsOf(lines[1]) = <<M, Z>> /\ WordsOf(lines[2]) = <<R, Z>>
        /\ WordsOf(lines[4]) = <<R, last>>
    BY NotBlank DEF WordsOf
  <2>4. WordsOf(lines[3]) = <<Z>>
    BY DEF WordsOf
  <2> QED BY <2>2, <2>3, <2>4
<1>3. M \in FileWords /\ R \in FileWords /\ Z \in FileWords /\ last \in FileWords
  <2>1. lines[4].addr \in 0 .. AddressLimit - 1
    <3>1. lines[4] \in FileLines
      BY SeqElement
    <3> QED BY <3>1 DEF FileLines
  <2>2. 0 \in 0 .. AddressLimit - 1
    BY LaunchAssumption
  <2>3. "Memory" \in Ops /\ "R" \in Ops
    BY DEF Ops
  <2> QED BY <2>1, <2>2, <2>3 DEF FileWords
<1>4. /\ Flat(1) = Flat(0) \o seqs[1] /\ Flat(2) = Flat(1) \o seqs[2]
      /\ Flat(3) = Flat(2) \o seqs[3] /\ Flat(4) = Flat(3) \o seqs[4]
      /\ Flat(4) \in Seq(FileWords)
  <2>1. /\ 1 \in 1 .. Len(seqs) /\ 2 \in 1 .. Len(seqs)
        /\ 3 \in 1 .. Len(seqs) /\ 4 \in 1 .. Len(seqs)
        /\ 1 - 1 = 0 /\ 2 - 1 = 1 /\ 3 - 1 = 2 /\ 4 - 1 = 3
    BY <1>1
  <2>2. \A m \in 1 .. Len(seqs) :
          /\ Flat(m) = Flat(m - 1) \o seqs[m] /\ Flat(m) \in Seq(FileWords)
    BY FlattenNext
  <2> HIDE DEF Flat
  <2> QED BY <2>1, <2>2
<1>5. Flat(0) = <<>>
  <2>1. SubSeq(seqs, 1, 0) = <<>> /\ Len(<<>>) = 0
    OBVIOUS
  <2> QED BY <2>1, FlattenNone
<1>6. IsPrefix(Flat(4), Words(lines))
  <2>1. 4 \in 0 .. Len(seqs)
    BY <1>1
  <2>2. IsPrefix(Flat(4), FlattenSeq(seqs))
    BY <2>1, FlattenPrefix
  <2> QED BY <1>1, <2>2
<1>7. Words(lines) \in Seq(FileWords)
  BY WordsType
<1> HIDE DEF Flat, M, R, Z, last
<1>8. PICK s0, s1, s2, s3, s4 : /\ s0 = Flat(0) /\ s1 = Flat(1) /\ s2 = Flat(2)
                                /\ s3 = Flat(3) /\ s4 = Flat(4)
  OBVIOUS
<1>9. s0 \in Seq(FileWords) /\ Len(s0) = 0
  <2>1. PICK empty : empty = <<>>
    OBVIOUS
  <2>2. empty \in Seq(FileWords) /\ Len(empty) = 0
    BY <2>1
  <2> QED BY <2>1, <2>2, <1>5, <1>8
<1>10. s1 = s0 \o <<M, Z>> /\ s2 = s1 \o <<R, Z>> /\ s3 = s2 \o <<Z>>
  BY <1>2, <1>4, <1>8
<1>11. s4 = s3 \o <<R, last>>
  BY <1>2, <1>4, <1>8
<1>12. /\ Len(Flat(4)) = 7 /\ Flat(4)[1] = M /\ Flat(4)[2] = Z /\ Flat(4)[3] = R
       /\ Flat(4)[4] = Z /\ Flat(4)[5] = Z /\ Flat(4)[6] = R
  <2>1. /\ Len(s4) = 7 /\ s4[1] = M /\ s4[2] = Z /\ s4[3] = R
        /\ s4[4] = Z /\ s4[5] = Z /\ s4[6] = R
    BY <1>3, <1>9, <1>10, <1>11, SevenWords
  <2> QED BY <1>8, <2>1
<1>13. /\ Len(Flat(4)) <= Len(Words(lines))
       /\ \A k \in 1 .. Len(Flat(4)) : Flat(4)[k] = Words(lines)[k]
  BY <1>4, <1>6, <1>7, PrefixElements
<1>14. /\ Len(Words(lines)) >= 6
       /\ \A k \in 1 .. 6 : Flat(4)[k] = Words(lines)[k]
  <2>1. Len(Words(lines)) \in Nat
    BY <1>7
  <2>2. Len(Words(lines)) >= 7
    BY <2>1, <1>12, <1>13
  <2>3. \A k \in 1 .. 6 : k \in 1 .. Len(Flat(4))
    BY <1>12
  <2> QED BY <1>13, <2>1, <2>2, <2>3
<1> QED BY <1>7, <1>12, <1>14 DEF M, R, Z

-----------------------------------------------------------------------------
(* The files that real.sh can make *)

LEMMA RecordingLines ==
  ASSUME NEW recording \in Recordings
  PROVE  /\ recording \in Seq(Lines) /\ Len(recording) >= 4
         /\ Len(recording) \in Nat
         /\ \A k \in {1, 2, 3, Len(recording)} :
              /\ recording[k].ip = 0 /\ recording[k].addr = 0
              /\ recording[k].op = IF k = 2 THEN "Memory" ELSE Blank
         /\ \A k \in 4 .. Len(recording) - 1 : recording[k].op \in {"R", "W"}
<1>1. Framed(recording)
  BY LaunchAssumption
<1>2. recording \in Seq(Lines)
  BY <1>1 DEF Framed, Lines, Ops
<1> QED BY <1>1, <1>2 DEF Framed

(* One flow: the file has the lines of the records, and no other. *)
LEMMA FileOfOneFlow ==
  ASSUME NEW f \in {"i", "d"}, NEW recording \in Recordings
  PROVE  /\ real_sh(f, recording) \in Seq(FileLines)
         /\ real_sh(f, recording)
              = awk(f, SubSeq(recording, 4, Len(recording) - 1))
         /\ \A k \in 1 .. Len(real_sh(f, recording)) :
              real_sh(f, recording)[k].op \in {"R", "W"}
<1> DEFINE n == Len(recording)
           all == awk(f, recording)
           records == SubSeq(recording, 4, n - 1)
           lines == SubSeq(all, 4, Len(all) - 1)
           own == awk(f, records)
<1>1. /\ recording \in Seq(Lines) /\ n >= 4 /\ n \in Nat
      /\ \A k \in 4 .. n - 1 : recording[k].op \in {"R", "W"}
  BY RecordingLines
<1>2. real_sh(f, recording) = lines
  BY DEF real_sh, Trimmed
<1>3. /\ all \in Seq(FileLines) /\ Len(all) = n
      /\ \A k \in 1 .. n : all[k] = OneLine(f, recording[k])
  BY <1>1, awkOneFlow
<1> HIDE DEF all, n
<1>4. /\ records \in Seq(Lines) /\ Len(records) = n - 4
      /\ \A k \in 1 .. n - 4 : records[k] = recording[k + 3]
  <2>1. recording \in Seq(Lines) /\ n = Len(recording) /\ n >= 4 /\ n \in Nat
    BY <1>1 DEF n
  <2> QED BY <2>1
<1>5. /\ lines \in Seq(FileLines) /\ Len(lines) = n - 4
      /\ \A k \in 1 .. n - 4 : lines[k] = all[k + 3]
  BY <1>1, <1>3
<1> HIDE DEF records, lines
<1>6. /\ own \in Seq(FileLines) /\ Len(own) = n - 4
      /\ \A k \in 1 .. n - 4 : own[k] = OneLine(f, records[k])
  BY <1>4, awkOneFlow
<1> HIDE DEF own
<1>7. \A k \in 1 .. n - 4 : k + 3 \in 1 .. n /\ k + 3 \in 4 .. n - 1
  BY <1>1
<1>8. \A k \in 1 .. n - 4 : lines[k] = OneLine(f, recording[k + 3])
  BY <1>3, <1>5, <1>7
<1>9. \A k \in 1 .. n - 4 : own[k] = lines[k]
  BY <1>4, <1>6, <1>8
<1>10. own = lines
  BY <1>5, <1>6, <1>9
<1>11. \A k \in 1 .. n - 4 : lines[k].op \in {"R", "W"}
  <2> SUFFICES ASSUME NEW k \in 1 .. n - 4 PROVE lines[k].op \in {"R", "W"}
    OBVIOUS
  <2>1. lines[k].op \in {"R", recording[k + 3].op}
    <3>1. \A r : OneLine(f, r).op \in {"R", r.op}
      BY DEF OneLine, Line
    <3> QED BY <1>8, <3>1
  <2>2. recording[k + 3].op \in {"R", "W"}
    BY <1>1, <1>7
  <2> QED BY <2>1, <2>2
<1> QED BY <1>2, <1>5, <1>10, <1>11 DEF own, records, n

(* Both flows: the lines that the reader comes across. *)
LEMMA FileOfBothFlows ==
  ASSUME NEW recording \in Recordings
  PROVE  LET lines == real_sh("t", recording)
         IN  /\ lines \in Seq(FileLines) /\ Len(lines) >= 4
             /\ lines[1].op = "Memory" /\ lines[1].addr = 0
             /\ lines[2].op = "R" /\ lines[2].addr = 0
             /\ lines[3].op = Blank /\ lines[3].addr = 0 /\ lines[4].op = "R"
<1> DEFINE n == Len(recording)
           all == awk("t", recording)
           lines == SubSeq(all, 4, Len(all) - 1)
<1>1. /\ recording \in Seq(Lines) /\ n >= 4 /\ n \in Nat
      /\ \A k \in {1, 2, 3, n} :
           /\ recording[k].ip = 0 /\ recording[k].addr = 0
           /\ recording[k].op = IF k = 2 THEN "Memory" ELSE Blank
  BY RecordingLines
<1>2. real_sh("t", recording) = lines
  BY DEF real_sh, Trimmed
<1>3. /\ all \in Seq(FileLines) /\ Len(all) = 2 * n
      /\ \A k \in 1 .. n :
           /\ all[2 * k - 1] = Line("R", recording[k].ip)
           /\ all[2 * k] = Line(recording[k].op, recording[k].addr)
  BY <1>1, awkBothFlows
<1> HIDE DEF all, n
<1>4. /\ all[4] = Line(recording[2].op, recording[2].addr)
      /\ all[5] = Line("R", recording[3].ip)
      /\ all[6] = Line(recording[3].op, recording[3].addr)
      /\ all[7] = Line("R", recording[4].ip)
  <2>1. 2 \in 1 .. n /\ 3 \in 1 .. n /\ 4 \in 1 .. n
    BY <1>1
  <2>2. 2 * 2 = 4 /\ 2 * 3 - 1 = 5 /\ 2 * 3 = 6 /\ 2 * 4 - 1 = 7
    OBVIOUS
  <2> QED BY <1>3, <2>1, <2>2
<1>5. /\ lines \in Seq(FileLines) /\ Len(lines) = 2 * n - 4
      /\ \A k \in 1 .. 4 : lines[k] = all[k + 3]
  BY <1>1, <1>3
<1> HIDE DEF lines
<1>6. Len(lines) >= 4
  BY <1>1, <1>5
<1>7. /\ lines[1] = all[4] /\ lines[2] = all[5]
      /\ lines[3] = all[6] /\ lines[4] = all[7]
  BY <1>5
<1>8. \A op \in Ops : Line(op, 0).op = op /\ Line(op, 0).addr = 0
  BY LineType
<1>9. "Memory" \in Ops /\ "R" \in Ops /\ Blank \in Ops
  BY DEF Ops
<1>10. /\ lines[1].op = "Memory" /\ lines[1].addr = 0
       /\ lines[2].op = "R" /\ lines[2].addr = 0
       /\ lines[3].op = Blank /\ lines[3].addr = 0
  BY <1>1, <1>4, <1>7, <1>8, <1>9
<1>11. lines[4].op = "R"
  BY <1>4, <1>7 DEF Line
<1> QED BY <1>2, <1>5, <1>6, <1>10, <1>11

-----------------------------------------------------------------------------
(* What has been read of a trace file *)

(* One flow: a request for each line read, the words of the others ahead. *)
OneFlowRead(lines, requests, words) ==
  LET n == Len(requests)
  IN  /\ n <= Len(lines)
      /\ \A k \in 1 .. n : requests[k] = AsRequest(lines[k])
      /\ words \in Seq(FileWords)
      /\ Len(words) = 2 * (Len(lines) - n)
      /\ \A k \in 1 .. Len(lines) - n :
           /\ words[2 * k - 1] = Word(lines[n + k].op)
           /\ words[2 * k] = Number(lines[n + k].addr)

Writes == [request |-> "WRITE", address |-> 0]
Reads  == [request |-> "READ", address |-> 0]

(* Both flows: at most two requests, and two words gone for each. *)
BothFlowsRead(all, requests, words) ==
  LET n == Len(requests)
  IN  /\ n <= 2
      /\ n >= 1 => requests[1] = Writes
      /\ n = 2 => requests[2] = Reads
      /\ words \in Seq(FileWords)
      /\ Len(words) = Len(all) - 2 * n
      /\ \A k \in 1 .. Len(words) : words[k] = all[2 * n + k]

(* What the reader makes of the next two words. *)
NextRequest(words) ==
  [request |-> IF words[1].text = "R" THEN "READ" ELSE "WRITE",
   address |-> words[2].value]

LEMMA WordValues ==
  /\ \A text : Word(text).text = text /\ Word(text).value = -1
  /\ \A addr : Number(addr).value = addr
  BY DEF Word, Number

(* The loop stops only at the end of the file ... *)
LEMMA OneFlowStops ==
  ASSUME NEW lines \in Seq(FileLines), NEW requests \in Seq(Access), NEW words,
         OneFlowRead(lines, requests, words), Len(requests) # Len(lines)
  PROVE  Len(words) >= 2 /\ words[2].value \in 0 .. AddressLimit - 1
<1> DEFINE n == Len(requests)
<1>1. /\ n \in Nat /\ Len(lines) \in Nat /\ n < Len(lines)
      /\ Len(words) = 2 * (Len(lines) - n)
      /\ \A k \in 1 .. Len(lines) - n :
           words[2 * k] = Number(lines[n + k].addr)
  BY DEF OneFlowRead
<1> HIDE DEF n
<1>2. 1 \in 1 .. Len(lines) - n /\ n + 1 \in 1 .. Len(lines) /\ 2 * 1 = 2
  BY <1>1
<1>3. words[2] = Number(lines[n + 1].addr)
  BY <1>1, <1>2
<1>4. lines[n + 1].addr \in 0 .. AddressLimit - 1
  <2>1. lines[n + 1] \in FileLines
    BY <1>2, SeqElement
  <2> QED BY <2>1 DEF FileLines
<1> QED BY <1>1, <1>3, <1>4, WordValues

(* ... and a turn of it takes the next line. *)
LEMMA OneFlowNext ==
  ASSUME NEW lines \in Seq(FileLines), NEW requests \in Seq(Access), NEW words,
         OneFlowRead(lines, requests, words), Len(words) >= 2,
         NextRequest(words) \in Access
  PROVE  OneFlowRead(lines, Append(requests, NextRequest(words)),
                     SubSeq(words, 3, Len(words)))
<1> DEFINE n == Len(requests)
           m == Len(words)
           r == NextRequest(words)
           more == Append(requests, r)
           rest == SubSeq(words, 3, m)
<1>1. /\ n \in Nat /\ Len(lines) \in Nat /\ n <= Len(lines)
      /\ \A k \in 1 .. n : requests[k] = AsRequest(lines[k])
      /\ words \in Seq(FileWords) /\ m = 2 * (Len(lines) - n)
      /\ \A k \in 1 .. Len(lines) - n :
           /\ words[2 * k - 1] = Word(lines[n + k].op)
           /\ words[2 * k] = Number(lines[n + k].addr)
  BY DEF OneFlowRead
<1>2. /\ rest \in Seq(FileWords) /\ Len(rest) = m - 2 /\ m \in Nat /\ m >= 2
      /\ \A k \in 1 .. m - 2 : rest[k] = words[k + 2]
  BY <1>1
<1>3. /\ Len(more) = n + 1 /\ more[n + 1] = r
      /\ \A k \in 1 .. n : more[k] = requests[k]
  OBVIOUS
<1> HIDE DEF n, m, rest, more
<1>4. n + 1 <= Len(lines) /\ m - 2 = 2 * (Len(lines) - (n + 1))
  BY <1>1, <1>2
<1>5. r = AsRequest(lines[n + 1])
  <2>1. 1 \in 1 .. Len(lines) - n /\ 2 * 1 = 2 /\ 2 * 1 - 1 = 1
    BY <1>1, <1>4
  <2>2. words[1] = Word(lines[n + 1].op) /\ words[2] = Number(lines[n + 1].addr)
    BY <1>1, <2>1
  <2> QED BY <2>2, WordValues DEF NextRequest, AsRequest
<1> HIDE DEF r
<1>6. \A k \in 1 .. n + 1 : more[k] = AsRequest(lines[k])
  <2>1. \A k \in 1 .. n + 1 : k \in 1 .. n \/ k = n + 1
    BY <1>1
  <2> QED BY <1>1, <1>3, <1>5, <2>1
<1>7. ASSUME NEW k \in 1 .. Len(lines) - (n + 1)
      PROVE  /\ rest[2 * k - 1] = Word(lines[(n + 1) + k].op)
             /\ rest[2 * k] = Number(lines[(n + 1) + k].addr)
  <2>1. /\ k + 1 \in 1 .. Len(lines) - n /\ n + (k + 1) = (n + 1) + k
        /\ 2 * (k + 1) - 1 = (2 * k - 1) + 2 /\ 2 * (k + 1) = 2 * k + 2
        /\ 2 * k - 1 \in 1 .. m - 2 /\ 2 * k \in 1 .. m - 2
    BY <1>1, <1>4
  <2>2. /\ rest[2 * k - 1] = words[(2 * k - 1) + 2]
        /\ rest[2 * k] = words[2 * k + 2]
    BY <1>2, <2>1
  <2>3. /\ words[2 * (k + 1) - 1] = Word(lines[n + (k + 1)].op)
        /\ words[2 * (k + 1)] = Number(lines[n + (k + 1)].addr)
    BY <1>1, <2>1
  <2> QED BY <2>1, <2>2, <2>3
<1>8. OneFlowRead(lines, more, rest)
  BY <1>2, <1>3, <1>4, <1>6, <1>7 DEF OneFlowRead
<1> QED BY <1>8 DEF more, rest, m, r

(* The first words, if both flows are wanted: the sixth is no number. *)
HeaderWords(all) ==
  /\ all \in Seq(FileWords) /\ Len(all) >= 6
  /\ all[1] = Word("Memory") /\ all[2] = Number(0)
  /\ all[3] = Word("R") /\ all[4] = Number(0)
  /\ all[5] = Number(0) /\ all[6] = Word("R")

LEMMA BothFlowsHeader ==
  ASSUME NEW recording \in Recordings
  PROVE  HeaderWords(Words(real_sh("t", recording)))
  BY FileOfBothFlows, WordsOfHeader DEF HeaderWords

(* The first two words that are ahead. *)
LEMMA BothFlowsAhead ==
  ASSUME NEW all, HeaderWords(all), NEW requests \in Seq(Access), NEW words,
         BothFlowsRead(all, requests, words)
  PROVE  /\ Len(words) >= 2
         /\ words[1] = all[2 * Len(requests) + 1]
         /\ words[2] = all[2 * Len(requests) + 2]
<1> DEFINE n == Len(requests)
<1>1. /\ n \in Nat /\ n <= 2 /\ Len(all) \in Nat /\ Len(all) >= 6
      /\ Len(words) = Len(all) - 2 * n
      /\ \A k \in 1 .. Len(words) : words[k] = all[2 * n + k]
  BY DEF BothFlowsRead, HeaderWords
<1> HIDE DEF n
<1>2. Len(words) >= 2 /\ 1 \in 1 .. Len(words) /\ 2 \in 1 .. Len(words)
  BY <1>1
<1> QED BY <1>1, <1>2 DEF n

(* The loop stops after two requests ... *)
LEMMA BothFlowsStop ==
  ASSUME NEW all, HeaderWords(all), NEW requests \in Seq(Access), NEW words,
         BothFlowsRead(all, requests, words)
  PROVE  words[2].value \in 0 .. AddressLimit - 1 <=> Len(requests) # 2
<1>1. Len(requests) \in Nat /\ Len(requests) <= 2
  BY DEF BothFlowsRead
<1>2. words[2] = all[2 * Len(requests) + 2]
  BY BothFlowsAhead
<1>3. 0 \in 0 .. AddressLimit - 1 /\ -1 \notin 0 .. AddressLimit - 1
  BY LaunchAssumption
<1>4. CASE Len(requests) = 0
  <2>1. words[2] = all[2]
    BY <1>2, <1>4
  <2> QED BY <1>3, <1>4, <2>1, WordValues DEF HeaderWords
<1>5. CASE Len(requests) = 1
  <2>1. words[2] = all[4]
    BY <1>2, <1>5
  <2> QED BY <1>3, <1>5, <2>1, WordValues DEF HeaderWords
<1>6. CASE Len(requests) = 2
  <2>1. words[2] = all[6]
    BY <1>2, <1>6
  <2>2. words[2].value = -1
    BY <2>1, WordValues DEF HeaderWords
  <2> QED BY <1>3, <1>6, <2>2
<1>7. Len(requests) = 0 \/ Len(requests) = 1 \/ Len(requests) = 2
  <2>1. \A n \in Nat : n <= 2 => n = 0 \/ n = 1 \/ n = 2
    OBVIOUS
  <2> QED BY <1>1, <2>1
<1> QED BY <1>4, <1>5, <1>6, <1>7

(* ... which it makes of the header. *)
LEMMA BothFlowsNext ==
  ASSUME NEW all, HeaderWords(all), NEW requests \in Seq(Access), NEW words,
         BothFlowsRead(all, requests, words), Len(requests) # 2,
         NextRequest(words) \in Access
  PROVE  BothFlowsRead(all, Append(requests, NextRequest(words)),
                       SubSeq(words, 3, Len(words)))
<1> DEFINE n == Len(requests)
           m == Len(words)
           r == NextRequest(words)
           more == Append(requests, r)
           rest == SubSeq(words, 3, m)
<1>1. /\ n \in Nat /\ n <= 2 /\ n # 2 /\ Len(all) \in Nat
      /\ n >= 1 => requests[1] = Writes
      /\ words \in Seq(FileWords) /\ m = Len(all) - 2 * n
      /\ \A k \in 1 .. m : words[k] = all[2 * n + k]
  BY DEF BothFlowsRead, HeaderWords
<1>2. m >= 2 /\ words[1] = all[2 * n + 1] /\ words[2] = all[2 * n + 2]
  BY BothFlowsAhead
<1>3. /\ rest \in Seq(FileWords) /\ Len(rest) = m - 2 /\ m \in Nat
      /\ \A k \in 1 .. m - 2 : rest[k] = words[k + 2]
  BY <1>1, <1>2, TwoLess
<1>4. /\ Len(more) = n + 1 /\ more[n + 1] = r
      /\ \A k \in 1 .. n : more[k] = requests[k]
  OBVIOUS
<1>5. r = [request |-> IF words[1].text = "R" THEN "READ" ELSE "WRITE",
           address |-> words[2].value]
  BY DEF NextRequest
<1> HIDE DEF n, m, rest, more, r
<1>6. n = 0 => r = Writes
  <2>1. n = 0 => words[1] = all[1] /\ words[2] = all[2]
    BY <1>2
  <2>2. n = 0 => words[1].text = "Memory" /\ words[2].value = 0
    BY <2>1, WordValues DEF HeaderWords
  <2> QED BY <1>5, <2>2 DEF Writes
<1>7. n = 1 => r = Reads
  <2>1. n = 1 => words[1] = all[3] /\ words[2] = all[4]
    BY <1>2
  <2>2. n = 1 => words[1].text = "R" /\ words[2].value = 0
    BY <2>1, WordValues DEF HeaderWords
  <2> QED BY <1>5, <2>2 DEF Reads
<1>8. n = 0 \/ n = 1
  BY <1>1
<1>9. /\ n + 1 <= 2 /\ n + 1 >= 1
      /\ more[1] = Writes
      /\ n + 1 = 2 => more[2] = Reads
  <2>1. CASE n = 0
    BY <1>4, <1>6, <2>1
  <2>2. CASE n = 1
    <3>1. more[2] = Reads
      BY <1>4, <1>7, <2>2
    <3>2. more[1] = requests[1] /\ requests[1] = Writes
      BY <1>1, <1>4, <2>2
    <3> QED BY <2>2, <3>1, <3>2
  <2> QED BY <1>8, <2>1, <2>2
<1>10. m - 2 = Len(all) - 2 * (n + 1)
  BY <1>1
<1>11. \A k \in 1 .. m - 2 : rest[k] = all[2 * (n + 1) + k]
  <2> SUFFICES ASSUME NEW k \in 1 .. m - 2
               PROVE  rest[k] = all[2 * (n + 1) + k]
    OBVIOUS
  <2>1. k + 2 \in 1 .. m /\ 2 * n + (k + 2) = 2 * (n + 1) + k
    BY <1>1, <1>3
  <2> QED BY <1>1, <1>3, <2>1
<1>12. BothFlowsRead(all, more, rest)
  BY <1>3, <1>4, <1>9, <1>10, <1>11 DEF BothFlowsRead
<1> QED BY <1>12 DEF more, rest, m, r

-----------------------------------------------------------------------------
(* Its invariant *)

TraceLines == real_sh(flow, pinatrace_out)

FromRecording == params.cpu_access = "REAL" /\ pinatrace_out # <<>>

Loaded ==
  /\ flow # "t" => OneFlowRead(TraceLines, test_requests, file)
  /\ flow = "t" => BothFlowsRead(Words(TraceLines), test_requests, file)

Loading ==
  /\ flow \in Flows
  /\ phase = "parsing" => pinatrace_out = <<>>
  /\ pinatrace_out # <<>> => pinatrace_out \in Recordings
  /\ phase \in {"reading", "running"} /\ FromRecording => Loaded
  /\ phase = "running" /\ FromRecording =>
       Len(test_requests) = IF flow = "t" THEN 2 ELSE Len(TraceLines)

LEMMA InitLoading == Init => Loading
  BY DEF Init, Loading, Flows, NoParameters, FromRecording

(* The words of a file that was made just now, of which none is read. *)
LEMMA OneFlowOpened ==
  ASSUME NEW f \in {"i", "d"}, NEW recording \in Recordings
  PROVE  LET lines == real_sh(f, recording)
         IN  OneFlowRead(lines, <<>>, Words(lines))
<1> DEFINE lines == real_sh(f, recording)
<1>1. /\ lines \in Seq(FileLines)
      /\ \A k \in 1 .. Len(lines) : lines[k].op \in {"R", "W"}
  BY FileOfOneFlow
<1> HIDE DEF lines
<1>2. \A k \in 1 .. Len(lines) : lines[k].op # Blank
  BY <1>1, NotBlank
<1>3. /\ Len(Words(lines)) = 2 * Len(lines)
      /\ Words(lines) \in Seq(FileWords)
      /\ \A k \in 1 .. Len(lines) :
           /\ Words(lines)[2 * k - 1] = Word(lines[k].op)
           /\ Words(lines)[2 * k] = Number(lines[k].addr)
  BY <1>1, <1>2, WordsOfRecords
<1>4. PICK empty : empty = <<>>
  OBVIOUS
<1>5. Len(empty) = 0 /\ Len(lines) \in Nat
  BY <1>1, <1>4
<1>6. /\ 0 <= Len(lines) /\ Len(lines) - 0 = Len(lines)
      /\ \A k \in 1 .. Len(lines) : 0 + k = k
  BY <1>5
<1>7. \A k \in 1 .. 0 : empty[k] = AsRequest(lines[k])
  OBVIOUS
<1>8. OneFlowRead(lines, empty, Words(lines))
  BY <1>3, <1>5, <1>6, <1>7 DEF OneFlowRead
<1> QED BY <1>4, <1>8 DEF lines

LEMMA BothFlowsOpened ==
  ASSUME NEW recording \in Recordings
  PROVE  LET all == Words(real_sh("t", recording))
         IN  BothFlowsRead(all, <<>>, all)
<1> DEFINE all == Words(real_sh("t", recording))
<1>1. all \in Seq(FileWords)
  BY BothFlowsHeader DEF HeaderWords
<1> HIDE DEF all
<1>2. PICK empty : empty = <<>>
  OBVIOUS
<1>3. Len(empty) = 0 /\ Len(all) \in Nat
  BY <1>1, <1>2
<1>4. /\ Len(all) = Len(all) - 2 * 0
      /\ \A k \in 1 .. Len(all) : 2 * 0 + k = k
  BY <1>3
<1>5. BothFlowsRead(all, empty, all)
  BY <1>1, <1>3, <1>4 DEF BothFlowsRead
<1> QED BY <1>2, <1>5 DEF all

LEMMA RequestRead ==
  ASSUME ReadRequest
  PROVE  /\ test_requests' = Append(test_requests, NextRequest(file))
         /\ file' = SubSeq(file, 3, Len(file))
         /\ Len(file) >= 2 /\ file[2].value \in 0 .. AddressLimit - 1
         /\ NextRequest(file) \in Access /\ phase = "reading"
         /\ UNCHANGED <<phase, pinatrace_out, flow, params>>
<1>1. /\ test_requests' = Append(test_requests, NextRequest(file))
      /\ file' = SubSeq(file, 3, Len(file)) /\ phase = "reading"
      /\ UNCHANGED <<phase, pinatrace_out, flow, params>>
  BY DEF ReadRequest, NextRequest
<1>2. Len(file) >= 2 /\ file[2].value \in 0 .. AddressLimit - 1
  BY DEF ReadRequest, RequestAhead
<1>3. NextRequest(file) \in Access
  BY <1>2 DEF NextRequest, Access
<1> QED BY <1>1, <1>2, <1>3

LEMMA TypeOfTraceLines ==
  ASSUME Loading, pinatrace_out # <<>>
  PROVE  /\ flow # "t" => TraceLines \in Seq(FileLines)
         /\ flow = "t" => HeaderWords(Words(TraceLines))
<1>1. pinatrace_out \in Recordings /\ flow \in {"i", "d", "t"}
  BY DEF Loading, Flows
<1>2. flow # "t" => TraceLines \in Seq(FileLines)
  BY <1>1, FileOfOneFlow DEF TraceLines
<1>3. flow = "t" => HeaderWords(Words(TraceLines))
  BY <1>1, BothFlowsHeader DEF TraceLines
<1> QED BY <1>2, <1>3

LEMMA OpenFileLoading ==
  ASSUME TypeOK, Drawing, Loading, OpenFile
  PROVE  Loading'
<1>1. /\ phase = "parsing" /\ phase' = "reading" /\ flow' \in Flows
      /\ test_requests = <<>> /\ test_requests' = <<>> /\ pinatrace_out = <<>>
  BY DEF OpenFile, Accepted, Drawing, Loading
<1>2. CASE pinatrace_out' = pinatrace_out
  BY <1>1, <1>2 DEF Loading, FromRecording
<1>3. CASE /\ pinatrace_out' \in Recordings
           /\ file' = Words(real_sh(flow', pinatrace_out'))
  <2>1. PICK f, recording : f = flow' /\ recording = pinatrace_out'
    OBVIOUS
  <2>2. recording \in Recordings /\ f \in {"i", "d", "t"}
    BY <1>1, <1>3, <2>1 DEF Flows
  <2>3. f # "t" => OneFlowRead(real_sh(f, recording), <<>>,
                               Words(real_sh(f, recording)))
    BY <2>2, OneFlowOpened
  <2>4. f = "t" => BothFlowsRead(Words(real_sh(f, recording)), <<>>,
                                 Words(real_sh(f, recording)))
    BY <2>2, BothFlowsOpened
  <2>5. Loaded'
    BY <1>1, <1>3, <2>1, <2>3, <2>4 DEF Loaded, TraceLines
  <2> QED BY <1>1, <1>3, <2>5 DEF Loading
<1> QED BY <1>2, <1>3 DEF OpenFile

LEMMA ReadRequestLoading ==
  ASSUME TypeOK, Drawing, Loading, ReadRequest
  PROVE  Loading'
<1>1. /\ test_requests' = Append(test_requests, NextRequest(file))
      /\ file' = SubSeq(file, 3, Len(file))
      /\ Len(file) >= 2 /\ file[2].value \in 0 .. AddressLimit - 1
      /\ NextRequest(file) \in Access /\ phase = "reading"
      /\ phase' = phase /\ pinatrace_out' = pinatrace_out
      /\ flow' = flow /\ params' = params
  BY RequestRead
<1>2. test_requests \in Seq(Access)
  BY DEF TypeOK
<1>3. TraceLines' = TraceLines
  BY <1>1 DEF TraceLines
<1>4. ASSUME FromRecording, flow # "t"
      PROVE  OneFlowRead(TraceLines, test_requests', file')
  <2>1. OneFlowRead(TraceLines, test_requests, file)
    BY <1>1, <1>4 DEF Loading, Loaded
  <2>2. TraceLines \in Seq(FileLines)
    BY <1>4, TypeOfTraceLines DEF FromRecording
  <2> QED BY <1>1, <1>2, <2>1, <2>2, OneFlowNext
<1>5. ASSUME FromRecording, flow = "t"
      PROVE  BothFlowsRead(Words(TraceLines), test_requests', file')
  <2>1. BothFlowsRead(Words(TraceLines), test_requests, file)
    BY <1>1, <1>5 DEF Loading, Loaded
  <2>2. HeaderWords(Words(TraceLines))
    BY <1>5, TypeOfTraceLines DEF FromRecording
  <2>3. Len(test_requests) # 2
    BY <1>1, <1>2, <2>1, <2>2, BothFlowsStop
  <2> QED BY <1>1, <1>2, <2>1, <2>2, <2>3, BothFlowsNext
<1>6. FromRecording' => Loaded'
  BY <1>1, <1>3, <1>4, <1>5 DEF FromRecording, Loaded
<1> QED BY <1>1, <1>6 DEF Loading

LEMMA ListCompleteLoading ==
  ASSUME TypeOK, Drawing, Loading, ListComplete
  PROVE  Loading'
<1>1. /\ UNCHANGED <<pinatrace_out, flow, params, file, test_requests>>
      /\ phase' = "running"
  BY DEF ListComplete
<1>2. test_requests \in Seq(Access)
  BY DEF TypeOK
<1>3. FromRecording => phase = "reading" /\ ~RequestAhead
  BY DEF ListComplete, FromRecording, Drawing
<1>4. FromRecording => Loaded
  BY <1>3 DEF Loading
<1>5. ASSUME FromRecording, flow # "t"
      PROVE  Len(test_requests) = Len(TraceLines)
  <2>1. OneFlowRead(TraceLines, test_requests, file)
    BY <1>4, <1>5 DEF Loaded
  <2>2. TraceLines \in Seq(FileLines)
    BY <1>5, TypeOfTraceLines DEF FromRecording
  <2>3. ~(Len(file) >= 2 /\ file[2].value \in 0 .. AddressLimit - 1)
    BY <1>3, <1>5 DEF RequestAhead
  <2> QED BY <1>2, <2>1, <2>2, <2>3, OneFlowStops
<1>6. ASSUME FromRecording, flow = "t"
      PROVE  Len(test_requests) = 2
  <2>1. BothFlowsRead(Words(TraceLines), test_requests, file)
    BY <1>4, <1>6 DEF Loaded
  <2>2. HeaderWords(Words(TraceLines))
    BY <1>6, TypeOfTraceLines DEF FromRecording
  <2>3. Len(file) >= 2
    BY <1>2, <2>1, <2>2, BothFlowsAhead
  <2>4. file[2].value \notin 0 .. AddressLimit - 1
    BY <1>3, <1>6, <2>3 DEF RequestAhead
  <2> QED BY <1>2, <2>1, <2>2, <2>4, BothFlowsStop
<1>7. TraceLines' = TraceLines /\ FromRecording' = FromRecording
  BY <1>1 DEF TraceLines, FromRecording
<1>8. FromRecording' => Loaded'
  BY <1>1, <1>4, <1>7 DEF Loaded
<1>9. FromRecording' =>
        Len(test_requests') = IF flow' = "t" THEN 2 ELSE Len(TraceLines')
  BY <1>1, <1>5, <1>6, <1>7
<1>10. /\ flow' \in Flows
       /\ pinatrace_out' # <<>> => pinatrace_out' \in Recordings
  BY <1>1 DEF Loading
<1> QED BY <1>1, <1>8, <1>9, <1>10 DEF Loading

LEMMA NextLoading == TypeOK /\ Drawing /\ Loading /\ [Next]_vars => Loading'
<1> SUFFICES ASSUME TypeOK, Drawing, Loading, [Next]_vars PROVE Loading'
  OBVIOUS
<1>1. CASE Reject
  BY <1>1 DEF Reject, Loading, FromRecording
<1>2. CASE StartDrawing
  <2>1. phase' = "drawing" /\ UNCHANGED <<pinatrace_out, flow>>
    BY <1>2 DEF StartDrawing
  <2> QED BY <2>1 DEF Loading
<1>3. CASE OpenFile
  BY <1>3, OpenFileLoading
<1>4. CASE DrawRequest
  <2>1. phase' = "drawing" /\ UNCHANGED <<pinatrace_out, flow>>
    BY <1>4 DEF DrawRequest
  <2> QED BY <2>1 DEF Loading
<1>5. CASE ReadRequest
  BY <1>5, ReadRequestLoading
<1>6. CASE ListComplete
  BY <1>6, ListCompleteLoading
<1>7. CASE UNCHANGED vars
  BY <1>7 DEF vars, Loading, Loaded, TraceLines, FromRecording
<1> QED BY <1>1, <1>2, <1>3, <1>4, <1>5, <1>6, <1>7 DEF Next, Done

LEMMA LoadingInvariance == Spec => [](TypeOK /\ Loading)
<1>1. IInv => TypeOK /\ Drawing
  BY DEF IInv
<1> QED BY <1>1, InitIInv, NextIInv, InitLoading, NextLoading, PTL DEF Spec

-----------------------------------------------------------------------------
(* The theorems *)

(* The list a CPU begins with holds only requests for 16-bit addresses,    *)
(* which is what Simulator assumes of Programs.                            *)
THEOREM LaunchTypes == Spec => []TypeOK
<1>1. IInv => TypeOK
  BY DEF IInv
<1> QED BY <1>1, InitIInv, NextIInv, PTL DEF Spec

(* Probabilities at the ends of their ranges are certainties, however the  *)
(* generator behaves and whatever the size of the memory.                  *)
THEOREM Certainties == Spec => []CertaintiesAtTheEnds
<1>1. IInv => CertaintiesAtTheEnds
  BY OperationsAreNat DEF IInv, TypeOK, Drawing, CertaintiesAtTheEnds
<1> QED BY <1>1, InitIInv, NextIInv, PTL DEF Spec

(* parseCommand() looks at an argument that was not given only if the      *)
(* letter of the access type is neither R nor S.                           *)
THEOREM ArgumentsGiven == Spec => []ArgumentsAreGiven
<1> DEFINE Inv == argv \in CommandLines /\ ArgumentsAreGiven
<1>1. Init => Inv
  BY DEF Init, ArgumentsAreGiven
<1>2. Inv /\ [Next]_vars => Inv'
  <2> SUFFICES ASSUME Inv, [Next]_vars PROVE Inv'
    OBVIOUS
  <2>1. CASE Reject
    BY <2>1
    DEF Reject, UsageError, LastRead, ArgumentsAreGiven, CommandLines
  <2>2. CASE ~Reject
    BY <2>2 DEF Next, vars, StartDrawing, OpenFile, DrawRequest, ReadRequest,
      ListComplete, Done, ArgumentsAreGiven
  <2> QED BY <2>1, <2>2
<1> QED BY <1>1, <1>2, PTL DEF Spec

(* With one flow the list is the recording, whole and in order, whatever   *)
(* the recording: the three lines cut off in front are the header, the one *)
(* at the end is the footer, and the reader stops at the end of the file.  *)
THEOREM SeparateFlowsLoadWholeHolds == Spec => []SeparateFlowsLoadWhole
<1>1. TypeOK /\ Loading => SeparateFlowsLoadWhole
  <2> SUFFICES ASSUME TypeOK, Loading, phase = "running", flow # "t",
                      FromRecording
               PROVE  HoldsRecording
    BY DEF SeparateFlowsLoadWhole, FromRecording
  <2> DEFINE n == Len(test_requests)
             lines == awk(flow, Records)
  <2>1. TraceLines \in Seq(FileLines) /\ TraceLines = lines
    <3>1. pinatrace_out \in Recordings /\ flow \in {"i", "d"}
      BY DEF Loading, Flows, FromRecording
    <3> QED BY <3>1, FileOfOneFlow DEF TraceLines, Records
  <2>2. OneFlowRead(TraceLines, test_requests, file) /\ n = Len(TraceLines)
    BY DEF Loading, Loaded
  <2>3. test_requests \in Seq(Access) /\ DOMAIN test_requests = 1 .. n
    BY DEF TypeOK
  <2>4. DOMAIN lines = 1 .. n
    BY <2>1, <2>2
  <2>5. \A k \in 1 .. n : test_requests[k] = AsRequest(lines[k])
    BY <2>1, <2>2 DEF OneFlowRead
  <2> HIDE DEF n, lines
  <2>6. test_requests = [k \in 1 .. n |-> test_requests[k]]
    BY <2>3 DEF n
  <2> QED BY <2>4, <2>5, <2>6 DEF HoldsRecording, lines
<1> QED BY <1>1, LoadingInvariance, PTL

(* With both flows in the file no recording is loaded, whatever it is: the *)
(* list is a write and a read of address 0, the words of the header, where *)
(* the recording has none, or a read of an instruction first.              *)
THEOREM BothFlowsNeverLoadWhole ==
  Spec => [](phase = "running" /\ params.cpu_access = "REAL" /\ flow = "t"
               /\ pinatrace_out # <<>> => ~HoldsRecording)
<1>1. TypeOK /\ Loading =>
        (phase = "running" /\ params.cpu_access = "REAL" /\ flow = "t"
           /\ pinatrace_out # <<>> => ~HoldsRecording)
  <2> SUFFICES ASSUME TypeOK, Loading, phase = "running", flow = "t",
                      FromRecording, HoldsRecording
               PROVE  FALSE
    BY DEF FromRecording
  <2> DEFINE lines == awk("t", Records)
  <2>1. /\ test_requests \in Seq(Access) /\ Len(test_requests) = 2
        /\ DOMAIN test_requests = 1 .. 2
    BY DEF TypeOK, Loading
  <2>2. test_requests[1].request = "WRITE"
    <3>1. BothFlowsRead(Words(TraceLines), test_requests, file)
      BY DEF Loading, Loaded
    <3> QED BY <2>1, <3>1 DEF BothFlowsRead, Writes
  <2>3. Records \in Seq(Lines)
    <3>1. pinatrace_out \in Recordings
      BY DEF Loading, FromRecording
    <3> QED BY <3>1, RecordingLines DEF Records
  <2>4. /\ lines \in Seq(FileLines) /\ Len(lines) = 2 * Len(Records)
        /\ Len(Records) >= 1 => lines[1] = Line("R", Records[1].ip)
    <3>1. 2 * 1 - 1 = 1 /\ (Len(Records) >= 1 => 1 \in 1 .. Len(Records))
      BY <2>3
    <3> QED BY <2>3, <3>1, awkBothFlows
  <2>5. test_requests = [k \in DOMAIN lines |-> AsRequest(lines[k])]
    BY DEF HoldsRecording
  <2> HIDE DEF lines
  <2>6. 1 \in DOMAIN lines /\ test_requests[1] = AsRequest(lines[1])
    BY <2>1, <2>5
  <2>7. Len(Records) >= 1
    BY <2>3, <2>4, <2>6
  <2>8. AsRequest(lines[1]).request = "READ"
    BY <2>4, <2>7 DEF AsRequest, Line
  <2> QED BY <2>2, <2>6, <2>8
<1> QED BY <1>1, LoadingInvariance, PTL
=============================================================================
