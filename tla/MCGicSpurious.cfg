CONSTANTS
  Ids <- KernelIds
  Handlers <- Ppis
  NoHandler = none
  InitialSlots = 8
  Irq <- Ppis
  KernelIrq <- Mapping
  Preempting <- Preemptors
  Fleeting <- FleetingOnes
  irq_map_count = 128
SPECIFICATION Spec
INVARIANTS OnlyAcknowledged
