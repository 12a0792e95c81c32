----------------------------- MODULE TraceFiles -----------------------------
(***************************************************************************)
(* How real.sh turns pinatrace.out into the trace files of the examples:   *)
(* awk prints one or two lines for each of its lines, then the first three *)
(* lines and the last one are cut off.                                     *)
(***************************************************************************)
EXTENDS Integers, SequencesExt

CONSTANT AddressModulus   \* what real.sh takes addresses modulo: 0xffff

ASSUME TraceFilesAssumption == AddressModulus \in Nat \ {0}

(* The flows: instructions only, data only, and both together. *)
Flows == {"i", "d", "t"}

(* The access of a line that says none, as those of the header: no text. *)
Blank == ""

(* A line of a trace file. *)
Line(op, addr) == [op |-> op, addr |-> addr % AddressModulus]

(* What awk prints for a line of pinatrace.out. *)
Printed(flow, line) ==
  CASE flow = "i" -> <<Line("R", line.ip)>>
    [] flow = "d" -> <<Line(line.op, line.addr)>>
    [] flow = "t" -> <<Line("R", line.ip), Line(line.op, line.addr)>>

awk(flow, file) == FlattenSeq([k \in DOMAIN file |-> Printed(flow, file[k])])

(* Faulty variant: the header is taken to be one line longer. *)
Trimmed_fifth(lines) == SubSeq(lines, 5, Len(lines) - 1)

(* tail -n +4 | head -n -1 *)
Trimmed(lines) == SubSeq(lines, 4, Len(lines) - 1)

real_sh(flow, file) == Trimmed(awk(flow, file))

(* The words of a line, as operator>> finds them: a text, and its value if *)
(* it is a hexadecimal number.                                             *)
Word(text)   == [text |-> text, value |-> -1]
Number(addr) == [text |-> "0x", value |-> addr]

Words(lines) ==
  FlattenSeq([k \in DOMAIN lines |->
    IF lines[k].op = Blank THEN <<Number(lines[k].addr)>>
                           ELSE <<Word(lines[k].op), Number(lines[k].addr)>>])
=============================================================================
