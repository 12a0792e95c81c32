------------------------------- MODULE Launch -------------------------------
(***************************************************************************)
(* The start of the program, up to the list of requests that a CPU begins  *)
(* with: the command line is parsed, and the constructor of CPUTest draws  *)
(* the list at random or reads it from a trace file.  The lists Simulator  *)
(* starts from (Programs) are those that can be found here.                *)
(***************************************************************************)
EXTENDS Parameters, TraceFiles

CONSTANTS
  Recordings,      \* what pinatrace.out may hold
  AddressLimit,    \* uint16_t is 0 .. AddressLimit - 1
  Numbers,         \* what generator() may return
  MemFactor,       \* MEM_SIZE is "64 * (1 << 10)", without parentheses:
  MemUnit          \* MemFactor * MemUnit

(* A complete trace: header, records and footer (PinTrace, TraceIsFramed). *)
Framed(recording) ==
  /\ recording \in
       Seq([ip : Nat, op : {Blank, "Memory", "R", "W"}, addr : Nat])
  /\ Len(recording) >= 4
  /\ \A k \in {1, 2, 3, Len(recording)} :
       /\ recording[k].ip = 0 /\ recording[k].addr = 0
       /\ recording[k].op = IF k = 2 THEN "Memory" ELSE Blank
  /\ \A k \in 4 .. Len(recording) - 1 : recording[k].op \in {"R", "W"}

ASSUME LaunchAssumption ==
  /\ AddressLimit \in Nat \ {0}
  /\ Numbers \subseteq Nat
  /\ MemFactor \in Nat \ {0}
  /\ MemUnit \in Nat \ {0}
  /\ MemFactor * MemUnit <= AddressLimit
  /\ AddressModulus <= AddressLimit
  /\ \A recording \in Recordings : Framed(recording)

VARIABLES
  phase,           \* "parsing", "usage", "undefined" (behaviour),
                   \* "drawing", "reading", "running"
  argv,            \* the command line
  pinatrace_out,   \* the recording params.file was made from, or <<>>: none
  flow,            \* its flow
  params,          \* the global params
  file,            \* the words of the trace file not yet read
  i,               \* the counter of the drawing loop
  test_requests    \* CPUTest::test_requests

vars == <<phase, argv, pinatrace_out, flow, params, file, i, test_requests>>

Access == [request : {"READ", "WRITE"}, address : 0 .. AddressLimit - 1]

MEM_SIZE == MemFactor * MemUnit

(* MEM_SIZE >> 1 *)
N_OPERATIONS == (MemFactor * MemUnit) \div 2

(* Faulty variant: the operator is <=. *)
Drawn_orEqual(number, probability) == number % 100 <= probability

(* An event of the given probability, in hundredths. *)
Drawn(number, probability) == number % 100 < probability

(* generator() % MEM_SIZE: the macro is expanded, and % comes before *. *)
RandomAddress(number) == (number % MemFactor) * MemUnit

(* The global params before main(). *)
NoParameters ==
  [memory_mode |-> "DEFAULT", cpu_access |-> "STOCHASTIC", file |-> "",
   random_access_prob |-> 0, read_req_prob |-> 0]

Init ==
  /\ phase = "parsing"
  /\ argv \in CommandLines
  /\ pinatrace_out = <<>>
  /\ flow = "i"
  /\ params = NoParameters
  /\ file = <<>>
  /\ i = 0
  /\ test_requests = <<>>

(* main() begins, and parseCommand() does not return ... *)
Reject ==
  /\ phase = "parsing"
  /\ \/ UsageError(argv) /\ phase' = "usage"
     \/ ~UsageError(argv) /\ LastRead(argv) > argv.given
          /\ phase' = "undefined"
  /\ UNCHANGED <<argv, pinatrace_out, flow, params, file, i, test_requests>>

Accepted ==
  /\ phase = "parsing"
  /\ ~UsageError(argv) /\ LastRead(argv) <= argv.given
  /\ params' = parseCommand(argv)

(* ... or it does, and the constructor of CPUTest begins. *)
StartDrawing ==
  /\ Accepted /\ params'.cpu_access = "STOCHASTIC"
  /\ phase' = "drawing"
  /\ UNCHANGED <<argv, pinatrace_out, flow, file, i, test_requests>>

(* The trace file was made by real.sh from some recording; if it cannot be *)
(* opened the list stays empty.                                            *)
OpenFile ==
  /\ Accepted /\ params'.cpu_access = "REAL"
  /\ phase' = "reading"
  /\ flow' \in Flows
  /\ \/ /\ pinatrace_out' \in Recordings
        /\ file' = Words(real_sh(flow', pinatrace_out'))
     \/ UNCHANGED <<pinatrace_out, file>>
  /\ UNCHANGED <<argv, i, test_requests>>

(* An iteration of the drawing loop; the address is narrowed to 16 bits.   *)
DrawRequest ==
  /\ phase = "drawing" /\ i < N_OPERATIONS
  /\ \E first, second, third \in Numbers :
       test_requests' = Append(test_requests,
         [request |-> IF Drawn(first, params.read_req_prob)
                        THEN "READ" ELSE "WRITE",
          address |-> (IF Drawn(second, params.random_access_prob)
                         THEN RandomAddress(third) ELSE i) % AddressLimit])
  /\ i' = i + 1
  /\ UNCHANGED <<phase, argv, pinatrace_out, flow, params, file>>

(* Faulty variant: the stream is not asked whether it is good.             *)
RequestAhead_unchecked == Len(file) >= 2

(* "file >> request" and "file >> hex >> address" both succeed. *)
RequestAhead ==
  /\ Len(file) >= 2
  /\ file[2].value \in 0 .. AddressLimit - 1

ReadRequest ==
  /\ phase = "reading" /\ RequestAhead
  /\ test_requests' = Append(test_requests,
       [request |-> IF file[1].text = "R" THEN "READ" ELSE "WRITE",
        address |-> file[2].value])
  /\ file' = SubSeq(file, 3, Len(file))
  /\ UNCHANGED <<phase, argv, pinatrace_out, flow, params, i>>

(* The loop ends; a stream that fails ends it wherever it is. *)
ListComplete ==
  /\ \/ phase = "drawing" /\ i >= N_OPERATIONS
     \/ phase = "reading" /\ ~RequestAhead
  /\ phase' = "running"
  /\ UNCHANGED <<argv, pinatrace_out, flow, params, file, i, test_requests>>

Done == phase \in {"usage", "undefined", "running"} /\ UNCHANGED vars

Next ==
  \/ Reject
  \/ StartDrawing
  \/ OpenFile
  \/ DrawRequest
  \/ ReadRequest
  \/ ListComplete
  \/ Done

Spec == Init /\ [][Next]_vars

-----------------------------------------------------------------------------
(* Properties *)

(* Every variable holds a value of its type; in particular the list is one *)
(* of requests for addresses that a word of 16 bits can hold, which is     *)
(* what Simulator assumes of Programs.                                     *)
TypeOK ==
  /\ phase \in {"parsing", "usage", "undefined", "drawing", "reading",
                "running"}
  /\ argv \in CommandLines
  /\ i \in 0 .. N_OPERATIONS
  /\ test_requests \in Seq(Access)

(* A command line that starts with R or S is never looked at beyond its    *)
(* end.  With another letter it may be: it is then taken for an S, but the *)
(* arguments of an S are not counted.                                      *)
ArgumentsAreGiven ==
  phase = "undefined" => argv.access_type \notin {"R", "S"}

(* "100 means that every access will be a read, while 0 means that every   *)
(* access will be a write", "0 means totally sequential access"            *)
(* (main.tex:658, 659): at the ends of their ranges the probabilities are  *)
(* certainties, and the list has its full length.                          *)
CertaintiesAtTheEnds ==
  phase = "running" /\ params.cpu_access = "STOCHASTIC" =>
    /\ Len(test_requests) = N_OPERATIONS
    /\ \A k \in DOMAIN test_requests :
         /\ params.read_req_prob >= 100 => test_requests[k].request = "READ"
         /\ params.read_req_prob = 0 => test_requests[k].request = "WRITE"
         /\ params.random_access_prob = 0 =>
              test_requests[k].address = (k - 1) % AddressLimit
         /\ params.random_access_prob >= 100 =>
              test_requests[k].address % MemUnit = 0

(* Why: the list drawn so far has a request for each turn of the loop. *)
Drawing ==
  /\ phase = "parsing" => test_requests = <<>> /\ i = 0
  /\ phase = "drawing" => params.cpu_access = "STOCHASTIC"
  /\ phase = "reading" => params.cpu_access = "REAL"
  /\ params.read_req_prob \in Nat /\ params.random_access_prob \in Nat
  /\ phase = "running" /\ params.cpu_access = "STOCHASTIC" => i >= N_OPERATIONS
  /\ phase \in {"drawing", "running"} /\ params.cpu_access = "STOCHASTIC" =>
       /\ Len(test_requests) = i
       /\ \A k \in DOMAIN test_requests :
            LET r == test_requests[k]
            IN  /\ params.read_req_prob >= 100 => r.request = "READ"
                /\ params.read_req_prob = 0 => r.request = "WRITE"
                /\ params.random_access_prob = 0 =>
                     r.address = (k - 1) % AddressLimit
                /\ params.random_access_prob >= 100 =>
                     r.address % MemUnit = 0

Records == SubSeq(pinatrace_out, 4, Len(pinatrace_out) - 1)

AsRequest(line) ==
  [request |-> IF line.op = "R" THEN "READ" ELSE "WRITE",
   address |-> line.addr]

(* The list has the accesses of the recording, all of them, in order. *)
HoldsRecording ==
  LET lines == awk(flow, Records)
  IN  test_requests = [k \in DOMAIN lines |-> AsRequest(lines[k])]

(* The instruction flow and the data flow of a recording arrive in the     *)
(* CPU's list complete: real.sh cuts off the header and the footer and     *)
(* nothing else, and the reader stops at the end of the file.              *)
SeparateFlowsLoadWhole ==
  phase = "running" /\ params.cpu_access = "REAL" /\ flow # "t"
    /\ pinatrace_out # <<>> => HoldsRecording

(* "sequence is real and is extracted using pinatrace tool on a real world *)
(* test program" (main.tex:650): so it should be with both flows in one    *)
(* file.  But there awk prints two lines for each line of the header, and  *)
(* three of those six stay in the file.  The reader takes the first two    *)
(* for accesses to address 0 and stops at the third, which has one word.   *)
BothFlowsLoadWhole ==
  phase = "running" /\ params.cpu_access = "REAL" /\ flow = "t"
    /\ pinatrace_out # <<>> => HoldsRecording

(* "100 means totally random access" (main.tex:658): any address of the    *)
(* memory may be drawn.                                                    *)
RandomAccessIsTotal ==
  phase = "drawing" /\ params.random_access_prob >= 100 =>
    \A address \in 0 .. MEM_SIZE - 1 :
      \E number \in Numbers : RandomAddress(number) % AddressLimit = address
=============================================================================
