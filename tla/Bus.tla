-------------------------------- MODULE Bus ---------------------------------
(***************************************************************************)
(* The main bus: one transaction (request, address and data) and a busy    *)
(* flag that is up from a successful set() to the next get().  Modules     *)
(* share the bus and drive it from their handlers.                         *)
(***************************************************************************)

CONSTANTS
  CPUs,   \* names of the modules that request transactions (CPUTest)
  MEM     \* name of the module that serves them (Memory)

ASSUME BusAssumption == MEM \notin CPUs

VARIABLE bus   \* [busy, request, address, data], the members of class Bus

-----------------------------------------------------------------------------

(* Bus::Bus() sets busy and request only; address and data are garbage     *)
(* until the first set().                                                  *)
BusInit(garbageAddress, garbageData) ==
  bus = [busy    |-> FALSE,
         request |-> "UNDEFINED",
         address |-> garbageAddress,
         data    |-> garbageData]

(* Faulty variants, each of which a property must tell from the code: a    *)
(* set() that ignores the busy flag, one that mixes up two members, one    *)
(* that forgets one, and a get() that forgets to clear the flag.           *)
SetSucceeds_always(b) == TRUE

Set_swapped(b, s) ==
  IF b.busy THEN b
  ELSE [busy |-> TRUE, request |-> s.request, address |-> s.data,
        data |-> s.address]

Set_keepsAddress(b, s) ==
  IF b.busy THEN b
  ELSE [b EXCEPT !.busy = TRUE, !.request = s.request, !.data = s.data]

Get_keepsBusy(b) == b

(* Bus::set() returns FALSE, and leaves the bus alone, while it is busy;   *)
(* Bus::get() returns FALSE while it is not.                               *)
SetSucceeds(b) == ~b.busy
GetSucceeds(b) == b.busy

(* The bus b after set(s), for a status s. *)
Set(b, s) ==
  IF SetSucceeds(b)
    THEN [busy |-> TRUE, request |-> s.request, address |-> s.address,
          data |-> s.data]
    ELSE b

(* The bus b after get(): the caller has a copy, and the bus is free. *)
Get(b) == [b EXCEPT !.busy = FALSE]
=============================================================================
