----------------------------- MODULE Parameters -----------------------------
(***************************************************************************)
(* The command line (parameters.cpp).  Only the first letter of the first  *)
(* two arguments counts, and only their number of the others that are      *)
(* missing; the seed is left out, the generator may return anything.       *)
(***************************************************************************)
EXTENDS Naturals

CONSTANTS
  Files,          \* the names of trace files
  Probabilities   \* the values given for the two probabilities

ASSUME ParametersAssumption == Probabilities \subseteq Nat

(* given is argc - 1. *)
CommandLines ==
  [given : 0 .. 5, access_type : {"R", "S", "other"},
   mode_type : {"D", "F", "other"}, file : Files,
   random_access_prob : Probabilities, read_req_prob : Probabilities]

(* Faulty variants: one argument less is asked for; a letter is missed. *)
UsageError_oneLess(argv) ==
  \/ argv.given = 0
  \/ argv.given < 2 /\ argv.access_type = "R"
  \/ argv.given < 4 /\ argv.access_type = "S"

(* The usage is printed and the process exits. *)
UsageError(argv) ==
  \/ argv.given = 0
  \/ argv.given < 3 /\ argv.access_type = "R"
  \/ argv.given < 5 /\ argv.access_type = "S"

(* The last argument that is looked at otherwise. *)
LastRead(argv) == IF argv.access_type = "R" THEN 3 ELSE 5

(* What parseCommand() leaves in params. *)
parseCommand(argv) ==
  [memory_mode        |-> IF argv.mode_type = "D" THEN "DEFAULT" ELSE "FAST",
   cpu_access         |-> IF argv.access_type = "R" THEN "REAL"
                                                    ELSE "STOCHASTIC",
   file               |-> argv.file,
   random_access_prob |-> argv.random_access_prob,
   read_req_prob      |-> argv.read_req_prob]
=============================================================================
