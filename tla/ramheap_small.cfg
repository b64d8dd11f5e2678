SPECIFICATION Spec
CONSTANTS
  Hosts <- MCHosts
  Home = "home"
  Gb = 2
  Slabs = 4
  Machines <- MCMachines
  Sightings = {1}
  Batches <- MCBatches
  Leases = {2}
  Pieces = {3, 4}
  Ids = {r1}
INVARIANTS
  TypeOK
  SlabsFitFree
  TalliesExact
  PlacementSound
PROPERTIES
  PoolSpec
