--------------------------------- MODULE Dma ---------------------------------
(***************************************************************************)
(* Buffers for devices that read and write memory themselves (kernel/dma): *)
(* allocation from physical memory, a registry of the live buffers, the    *)
(* map and unmap that hand a buffer to a device and take it back, and the  *)
(* older coherent-allocation calls built on them (dma_compat.c).           *)
(*                                                                         *)
(* Addresses count units of which DmaPageSize make a page; page 0 is never *)
(* handed out.  Drivers call in turn.                                      *)
(***************************************************************************)
EXTENDS Integers, FiniteSets

CONSTANTS
  DriverBuffers,      \* dma_buffer_t objects of drivers
  MaxBuffers,         \* DMA_MAX_BUFFERS: slots of the registry and coherent entries
  DmaPages,           \* pages the physical allocator manages
  DmaPageSize,        \* DMA_PAGE_SIZE
  MaxTransfer,        \* max_transfer of the driver's device
  Boundary,           \* boundary of the driver's device
  Masks,              \* values a driver sets its mask to
  NoBuffer            \* NULL

ASSUME DmaAssumption ==
  /\ {MaxBuffers, DmaPages, DmaPageSize, MaxTransfer, Boundary} \subseteq Nat \ {0}
  /\ Masks \subseteq Nat
  /\ DriverBuffers \cap (1..MaxBuffers) = {} /\ NoBuffer \notin DriverBuffers \cup 1..MaxBuffers

VARIABLES
  registry,      \* dma_buffer_registry
  buffer,        \* the dma_buffer_t of the drivers and of the coherent entries
  entryUsed,     \* used of the coherent entries
  mask,          \* dma_mask of the driver's device
  freePages      \* what the physical allocator has left

dmaVars == <<registry, buffer, entryUsed, mask, freePages>>

\* Entry i of the compatibility layer has its own buffer, named i.
Entries == 1..MaxBuffers
Buffer == DriverBuffers \cup Entries
Directions == {"to", "from", "both"}

\* The default device has no limits; the driver's cannot do "both" (its flags).
LastAddress == (DmaPages + 1) * DmaPageSize - 1
Device == {"default", "driver"}
MaskOf(d) == IF d = "default" THEN LastAddress ELSE mask
Supports(d, direction) == d = "default" \/ direction # "both"

Zeroed == [addr |-> 0, size |-> 0, pages |-> 0, direction |-> "to", state |-> "unmapped",
           allocated |-> FALSE, device |-> "default"]

dma_init ==
  /\ registry = [i \in 1..MaxBuffers |-> NoBuffer]
  /\ buffer = [b \in Buffer |-> Zeroed]
  /\ entryUsed = [i \in Entries |-> FALSE]
  /\ mask = LastAddress
  /\ freePages = 1..DmaPages

-----------------------------------------------------------------------------
(* Validation. *)

dma_validate_range(addr, size, m) == addr # 0 /\ size # 0 /\ addr + size - 1 <= m

dma_find_buffer(addr) ==
  LET at == {i \in 1..MaxBuffers : registry[i] # NoBuffer /\ buffer[registry[i]].addr = addr} IN
  IF addr = 0 \/ at = {} THEN NoBuffer
  ELSE registry[CHOOSE i \in at : \A j \in at : i <= j]

\* The mask is the one the device has now.
dma_is_valid(b) ==
  /\ dma_find_buffer(buffer[b].addr) = b
  /\ buffer[b].allocated
  /\ dma_validate_range(buffer[b].addr, buffer[b].size, MaskOf(buffer[b].device))

PagesFor(size) == (size + DmaPageSize - 1) \div DmaPageSize

\* dma_prepare_allocation accepts the size: the transfer limit, mask and boundary.
dma_prepare_allocation(d, size) ==
  /\ d = "driver" => size <= MaxTransfer /\ PagesFor(size) * DmaPageSize <= Boundary
  /\ MaskOf(d) >= DmaPageSize
  /\ PagesFor(size) * DmaPageSize - 1 <= MaskOf(d)

-----------------------------------------------------------------------------
(* Allocation. *)

FreeSlots == {i \in 1..MaxBuffers : registry[i] = NoBuffer}
find_free_slot == CHOOSE i \in FreeSlots : \A j \in FreeSlots : i <= j

RunOf(p, n) == p..(p + n - 1)

\* pmem_alloc_region: the first run of n free pages that ends within the mask.
Regions(n, m) == {p \in 1..DmaPages : RunOf(p, n) \subseteq freePages
                                       /\ (p + n) * DmaPageSize - 1 <= m}
FirstRegion(n, m) == CHOOSE p \in Regions(n, m) : \A q \in Regions(n, m) : p <= q

CanAllocate(d, size, direction, b) ==
  /\ Supports(d, direction)
  /\ dma_prepare_allocation(d, size)
  /\ ~buffer[b].allocated
  /\ FreeSlots # {}
  /\ Regions(PagesFor(size), MaskOf(d)) # {}

NewBuffer(d, size, direction, page) ==
  [Zeroed EXCEPT !.addr = page * DmaPageSize, !.size = size, !.pages = PagesFor(size),
                 !.direction = direction, !.allocated = TRUE, !.device = d]

\* dma_alloc_buffer when it succeeds, b left in the given state of mapping.
Allocated(d, size, direction, b, state) ==
  \E page \in {FirstRegion(PagesFor(size), MaskOf(d))} :
    /\ buffer' = [buffer EXCEPT ![b] = [NewBuffer(d, size, direction, page) EXCEPT !.state = state]]
    /\ registry' = [registry EXCEPT ![find_free_slot] = b]
    /\ freePages' = freePages \ RunOf(page, PagesFor(size))

dma_alloc_buffer(b) == \E d \in Device, size \in 1..(DmaPages * DmaPageSize), direction \in Directions :
  /\ IF CanAllocate(d, size, direction, b) THEN Allocated(d, size, direction, b, "unmapped")
     ELSE UNCHANGED <<registry, buffer, freePages>>
  /\ UNCHANGED <<entryUsed, mask>>

CanFree(b) == dma_is_valid(b) /\ buffer[b].state = "unmapped"

\* dma_free_buffer when it succeeds.
Freed(b) ==
  /\ registry' = [i \in 1..MaxBuffers |-> IF registry[i] = b THEN NoBuffer ELSE registry[i]]
  /\ freePages' = freePages \cup RunOf(buffer[b].addr \div DmaPageSize, buffer[b].pages)
  /\ buffer' = [buffer EXCEPT ![b] = Zeroed]

dma_free_buffer(b) ==
  /\ IF CanFree(b) THEN Freed(b) ELSE UNCHANGED <<registry, buffer, freePages>>
  /\ UNCHANGED <<entryUsed, mask>>

-----------------------------------------------------------------------------
(* Mapping. *)

\* dma_validate_buffer_internal; every buffer begins on a page, as alignments require.
dma_validate_buffer(d, b, direction) ==
  /\ dma_is_valid(b)
  /\ buffer[b].state = "unmapped"
  /\ dma_validate_range(buffer[b].addr, buffer[b].size, MaskOf(d))
  /\ d = "driver" =>
       /\ buffer[b].size <= MaxTransfer
       /\ buffer[b].addr \div Boundary = (buffer[b].addr + buffer[b].size - 1) \div Boundary
  /\ Supports(d, direction)

dma_map(b) == \E d \in Device, direction \in Directions :
  /\ dma_validate_buffer(d, b, direction)
  /\ buffer' = [buffer EXCEPT ![b].device = d, ![b].direction = direction,
                              ![b].state = "device"]
  /\ UNCHANGED <<registry, entryUsed, mask, freePages>>

CanUnmap(d, b, direction) ==
  /\ dma_is_valid(b) /\ buffer[b].state # "unmapped"
  /\ buffer[b].device = d /\ buffer[b].direction = direction

dma_unmap(b) == \E d \in Device, direction \in Directions :
  /\ CanUnmap(d, b, direction)
  /\ buffer' = [buffer EXCEPT ![b].state = "unmapped"]
  /\ UNCHANGED <<registry, entryUsed, mask, freePages>>

\* dma_sync_for_device and dma_sync_for_cpu.
dma_sync(b) == \E d \in Device, state \in {"device", "cpu"} :
  /\ dma_is_valid(b) /\ buffer[b].state # "unmapped" /\ buffer[b].device = d
  /\ buffer' = [buffer EXCEPT ![b].state = state]
  /\ UNCHANGED <<registry, entryUsed, mask, freePages>>

dma_set_mask == \E m \in Masks \ {0} :
  /\ mask' = m
  /\ UNCHANGED <<registry, buffer, entryUsed, freePages>>

-----------------------------------------------------------------------------
(* The coherent calls. *)

UnusedEntries == {i \in Entries : ~entryUsed[i]}
FirstUnused == CHOOSE i \in UnusedEntries : \A j \in UnusedEntries : i <= j

\* Allocation for the default device, then dma_map, which accepts every such buffer.
dma_alloc_coherent == \E size \in 1..(DmaPages * DmaPageSize) :
  /\ IF UnusedEntries # {} /\ CanAllocate("default", size, "both", FirstUnused)
     THEN /\ Allocated("default", size, "both", FirstUnused, "device")
          /\ entryUsed' = [entryUsed EXCEPT ![FirstUnused] = TRUE]
     ELSE UNCHANGED <<registry, buffer, freePages, entryUsed>>
  /\ UNCHANGED mask

\* The entry is cleared whatever dma_unmap and dma_free_buffer return.  The caller
\* may also give the physical address, which must then be the entry's.
FreeEntry(i) ==
  /\ IF CanUnmap("default", i, "both") THEN Freed(i)
     ELSE /\ buffer' = [buffer EXCEPT ![i] = Zeroed]
          /\ UNCHANGED <<registry, freePages>>
  /\ entryUsed' = [entryUsed EXCEPT ![i] = FALSE]

dma_free_coherent == \E virt \in {buffer[i].addr : i \in Entries}, phys \in 0..DmaPages :
  LET at == {i \in Entries : entryUsed[i] /\ buffer[i].addr = virt} IN
  /\ at # {}
  /\ LET i == CHOOSE j \in at : \A k \in at : j <= k IN
     IF phys # 0 /\ buffer[i].addr # phys * DmaPageSize
     THEN UNCHANGED <<registry, buffer, freePages, entryUsed>>
     ELSE FreeEntry(i)
  /\ UNCHANGED mask

DmaNext ==
  \/ \E b \in DriverBuffers :
       \/ dma_alloc_buffer(b) \/ dma_free_buffer(b)
       \/ dma_map(b) \/ dma_unmap(b) \/ dma_sync(b)
  \/ dma_set_mask \/ dma_alloc_coherent \/ dma_free_coherent

-----------------------------------------------------------------------------
(* Properties. *)

DmaTypeOK ==
  /\ registry \in [1..MaxBuffers -> Buffer \cup {NoBuffer}]
  /\ buffer \in [Buffer -> [addr: 0..LastAddress, size: 0..LastAddress, pages: 0..DmaPages,
                            direction: Directions, state: {"unmapped", "device", "cpu"},
                            allocated: BOOLEAN, device: Device]]
  /\ entryUsed \in [Entries -> BOOLEAN]
  /\ freePages \subseteq 1..DmaPages

PagesOf(b) == RunOf(buffer[b].addr \div DmaPageSize, buffer[b].pages)

\* The registry has every allocated buffer exactly once, a mapped buffer is still
\* allocated, and a coherent entry is in use exactly while its buffer is mapped.
RegistryExact ==
  /\ \A b \in Buffer :
       /\ buffer[b].allocated <=> \E i \in 1..MaxBuffers : registry[i] = b
       /\ \A i, j \in 1..MaxBuffers : registry[i] = b /\ registry[j] = b => i = j
       /\ buffer[b].state # "unmapped" => buffer[b].allocated
  /\ \A i \in Entries : entryUsed[i] <=> buffer[i].state # "unmapped"

\* No page is in two buffers or lost: what the buffers do not have is free, even when
\* calls are refused or a device's mask shrinks under its buffers.
PagesAccounted ==
  /\ \A a, b \in Buffer : a # b => PagesOf(a) \cap PagesOf(b) = {}
  /\ freePages = (1..DmaPages) \ UNION {PagesOf(b) : b \in Buffer}

\* Buffers, registry, coherent entries and pages are accounted for (dma.c:60-151,
\* dma_compat.c:15-46).
DmaExact == DmaTypeOK /\ RegistryExact /\ PagesAccounted
=============================================================================
