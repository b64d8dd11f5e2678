----------------------------- MODULE MCRamHeap -----------------------------
(***************************************************************************)
(* A small fleet for RamHeap: home and two servers, RAM in half gigabytes, *)
(* and the requests of a hack, a grow and a weaken.                        *)
(***************************************************************************)
EXTENDS RamHeap

MCHosts == {"home", "small", "large"}
Machine(ram, c, kept) ==
  [maxRam |-> ram, cores |-> c, reserved |-> kept]

\* Home keeps a reserve, one server may be quarantined and one may grow.
MCMachines == [h \in MCHosts |->
  CASE h = "home" -> {Machine(6, 2, 1)}
    [] h = "small" -> {Machine(4, 1, 0), Machine(4, 1, 4)}
    [] OTHER -> {Machine(4, 1, 0), Machine(7, 2, 0)}]

MCHack == [size |-> 2, threads |-> 2, policy |-> "contiguous", coreAware |-> FALSE]
MCGrow == [size |-> 3, threads |-> 1, policy |-> "contiguous", coreAware |-> TRUE]
MCWeaken == [size |-> 3, threads |-> 2, policy |-> "spread", coreAware |-> TRUE]
MCShare == [size |-> 3, threads |-> 2, policy |-> "spread", coreAware |-> FALSE]
MCHomeFirst == [size |-> 2, threads |-> 3, policy |-> "homeFirst", coreAware |-> TRUE]

MCBatches == {<<MCHack, MCWeaken>>, <<MCGrow, MCWeaken>>, <<MCWeaken>>,
              <<MCShare>>, <<MCHomeFirst>>}
=============================================================================
