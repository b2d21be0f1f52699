# Formal models of HBDDRMDrivers

HBDDRMDrivers is the library of hardware-dependent DRM drivers that MiniGUI
loads for its `dri` engine: one function, `__drm_ex_driver_get()`, hands out a
table of operations (`DrmDriverOps`) for the rockchip, i915 or vmwgfx kernel
driver. This directory holds TLA+ models of the library, TLC runs over small
instances of them, and proofs that tlapm checks. `PROJECT.json` lists
components, runs, mutants, findings, hazards and theorems, and maps every
definition to the source lines it models.

Paths below are relative to `source/drmdrivers/`.

## 1. The system

### Parts, their state and their operations

| part | source | state | operations |
|---|---|---|---|
| driver registry | `common/drivers.c`, `include/drivers.h`, `CMakeLists.txt` | what the build compiled in | `__drm_ex_driver_get(name)` |
| surface layout | `common/helpers.c`, `create_buffer`/`check_format_size` of each driver | none (pure, `uint32_t`) | format to cpp, pitch, header lines, size, check of an importer's claim |
| rockchip buffers | `rockchip/rockchip-drm.c` 60-662 | `nr_bufs`; per surface: GEM handle, PRIME descriptor, RGA handle, address, size, header lines | create/destroy driver, `create_buffer`, `create_buffer_from_handle/_name/_prime_fd`, map, unmap, destroy |
| rockchip 2D | `rockchip/rockchip-drm.c` 664-973 | the alpha a blit leaves in the source's `rga_buffer` | fill, check_blit, blitter, copy |
| i915 batch and 2D | `intel/intel-i915-driver.c` 73-176, 683-933, `intel/intel-batchbuffer.h` | the batch: words, relocations (inside libdrm), reserved space; `gen` | fill_rect, copy_blit, check_blit, copy_buff, flush_driver |
| i915 buffers | `intel/intel-i915-driver.c` 306-345, 357-675 | `nr_buffers`; per surface a reference-counted `drm_intel_bo` | as rockchip |
| i915 chip identification | `intel/intel-i915-driver.c` 178-304, `intel-chipset.*`, `i915-pciids.h` | none | udev look-up, PCI id to generation |
| vmwgfx buffers | `vmwgfx/vmwgfx.c` | `nr_bufs`; per surface: handle, address, `map_count` | create/destroy driver, create, map, unmap, destroy |

### How they interact

MiniGUI calls the table of operations from one thread per process. A process
creates surface buffers, hands them to other processes as a global GEM name, a
handle or a PRIME descriptor, and those import them with their own copy of the
driver. What the processes share is therefore in the kernel: buffer objects
kept alive by references (handles, descriptors, mappings, RGA imports). The
caller of `create_buffer_from_handle()` and `create_buffer_from_prime_fd()`
gives its handle or descriptor away: the rockchip driver closes it in
`destroy_buffer()`, the i915 driver never does. Within a process, i915 surfaces
made from one name or descriptor share a buffer object (bo) of libdrm_intel, with
its count of users, its count of maps and its address; and bos of destroyed
surfaces are kept by libdrm, which the driver tells to (line 84), and are given to
new ones. The i915 2D operations leave commands and relocations in a batch that
has to be handed to the GPU before the surfaces go.

### What is hard in it

* *Ownership over sequences of calls and processes.* Every reference has to be
  closed once, by whoever owns it, on every path (failed exports, failed RGA
  imports, imports without a handle), while numbers are recycled by the kernel
  and other processes come, go and die.
* *Agreement without communication.* Both sides compute the layout of a surface
  again, with formulas that differ and arithmetic that wraps around.
* *A buffer with two halves.* The words of a batch are in the driver's memory and
  its relocations in libdrm; they are filled and reset apart, with calls that
  may fail in between.
* *Objects shared unawares.* Two i915 surfaces that turn out to have one bo map
  and unmap it two ways, with calls whose results nobody looks at; and a surface
  that is created may get the bo, and the object, of one that was destroyed.
* *Two lists of one thing.* Which generation a chip is of is written down in two
  headers of different origin, searched in an order that matters.
* *Asking and acting.* What `check_blit()` was asked about need not be what the
  blitter is given, and the aperture check is true only until another process
  pins memory.

What makes each part correct: a surface's references are its own and good until
it is destroyed, nothing is kept open for nobody (libdrm keeps some handles for
reuse), the count of buffers tells whether some are left
(all buffer parts); rows lie inside the mapping and importers find the pixels
(layout); batches are well formed, fit their memory, are handed over for the right
ring in the right order, and nothing is pending between calls (i915); a driver
that is compiled in is offered (registry).

## 2. Modules

| module | models | remarks |
|---|---|---|
| `SurfaceLayout` | layout arithmetic; `Word` is the modulus of `uint32_t` | used by the two below |
| `LayoutExchange` | create in one process, check in another, for the three drivers | `HasRoom`, `HonestClaimAccepted`, `SizeCatchesMistakes` |
| `LayoutExchangeProofs` | theorems about `LayoutExchange` | section 5 |
| `GemKernel` | external: GEM objects and each process's references (`res[p][slot]`) | used by the buffer drivers |
| `RockchipDriver` | all lifecycle entries of the rockchip driver, in several processes | see below |
| `SharedSurfaces` | abstract specification: surfaces, tokens and the pool of objects with memory | refined by `RockchipDriver` and by `I915Driver` |
| `RockchipProofs` | theorems about `RockchipDriver` | section 5 |
| `RockchipBlit` | the rockchip 2D operations, a step per librga call | see below |
| `RockchipBlitProofs` | theorems about `RockchipBlit` | section 5 |
| `LibdrmIntel` | external: libdrm_intel's buffer objects on top of `GemKernel` | used by the next |
| `I915Driver` | all lifecycle entries of the i915 driver | see below |
| `I915DriverProofs` | theorems about `I915Driver` | section 5 |
| `IntelChipset` | from a descriptor to a generation: udev, id tables, predicates | see below |
| `IntelChipsetProofs` | theorems about `IntelChipset` | section 5 |
| `I915Batch` | batch buffer and 2D operations, a step per libdrm call | see below |
| `I915BatchProofs` | theorems about `I915Batch` | section 5 |
| `VmwgfxDriver` | all entries of the vmwgfx driver | see below |
| `VmwgfxProofs` | theorems about `VmwgfxDriver` | section 5 |
| `DriverRegistry` | conditions of the build against conditions of the code | a finding |
| `MCRockchip`, `MCRockchipBlit`, `MCLayoutExchange`, `MCI915`, `MCI915Driver`, `MCIntelChipset`, `MCVmwgfx` | instances for TLC | |

**RockchipDriver.** An entry is called by one thread and shares no memory with
other processes, so one entry is one action, including every call it makes:
`CreateBuffer` has the format check, the kernel's allocation, the counting and
`wrap_rga_buffer()` with its two ways to fail; `DestroyBuffer` closes what the
structure holds in the code's way (descriptor 0 is taken for none, GEM_CLOSE of
handle 0 fails and the buffer is not counted off). Entries that fail return
before they change anything and are stuttering steps. `buf[p][b]` is a
`my_surface_buffer`; `res` is the kernel's view, so that a number in a structure
and what the number leads to are two things that can come apart. `held` is what
belongs to the caller. `Req[o]` gives each object the arguments it is created
with, and an importer may claim the layout of any object (`like`), which is
how a wrong claim is modelled. A PRIME descriptor or name is passed on by
`CallerReceivesFd` and `CallerOpensName`.

The caller is assumed to keep the contract the code relies on: it gives a handle
or descriptor away when an import succeeds, maps a buffer that is not mapped and
unmaps one that is (the code asserts both), and does not destroy a buffer after
its driver.

**I915Batch.** `pc` runs through an operation; a step ends at each libdrm call
whose result matters (aperture check, upload, execution). A batch that was
handed to libdrm is kept in `sent` until the next call, with its words,
relocations, ring and whether it got through, which is what the properties look
at. `ResultsTell` is about what was handed over: a batch whose upload or execution
failed is dropped (line 118) and the call returns 0 all the same, so that a result
of 0 says nothing of what the GPU did. Words are named after
their meaning; a packet is a sequence of them. Empty rectangles in a fill and
calls with NULL are left out (the code asserts their absence). A failing flush
changes nothing but the flag `ok`, as in the code, where no caller looks at it.

**RockchipBlit.** An operation is `pc = "check"` with the job librga is asked
about, then `pc = "submitted"` with the job it is given. A rectangle is its rows,
a usage word the set of its flags. `check_blit()` and the blitter it returns are
two calls: `Blit` takes any rectangles, provided there are some for which
`check_blit()` said yes. `SubmitBlit` is apart from `Submit`, for a blit sets
`global_alpha` between check and submission. As in the code, the destination
rectangle is moved by the header lines of the source, and `improcess()` is given
the source's rectangle in the destination's place and the other way round, unlike
`imcheck()` before it. `_DEBUG` is defined in the source (line 44), so that blits
are always checked. librga is taken as the driver takes it: 0 is success, and the
rectangle of the source comes before that of the destination, which is the order
of the surfaces in both functions.

**LibdrmIntel and I915Driver.** `bo[p][h]` is the bo libdrm keeps for GEM handle
`h`, with its number of users and of maps, its address (`virtual`) and the
mappings it has (`cached`). `kept[p]` are the handles of bos without users that
libdrm keeps: the last reference to a bo that was allocated (`reusable`), and not
opened by a name or descriptor, frees it or has it kept, with its handle open, its
object and its mappings; `AllocBo` takes a kept bo or makes a new one, and
`LibdrmFrees` is libdrm's housekeeping (bos kept for a second, or purged by the
kernel), which frees one at any time. What decides among these (sizes, times,
whether the GPU still works on a bo) is not modelled: both ways are open.
`drm_intel_bufmgr_destroy()` frees what is kept, and nothing else. libdrm would
not reuse a bo that it exported; callers export GEM handles by themselves, of which
it does not learn, so that a reused object may be one that another process has.
`create_bo_from_handle()` turns the handle into a
name and opens that, since the library is built without
`DRM_INTEL_HAVE_CREATE_FROM_HANDLE`; by a name libdrm finds the bo it opened by
that name before, by a descriptor the one whose handle the kernel knows, and
otherwise makes another bo on the same object. `MapBuffer` takes whatever
`virtual` holds after the call, failed or not. A surface is a member of
`buf[p]` with the handle of its bo; its geometry is `LayoutExchange`'s. An object that the process
exported and then imports by descriptor leads libdrm to the bo it allocated; if that
one is kept by now, libdrm uses it and keeps it all the same, and may free it or
hand it out beneath the surface. `Reimports` says whether callers do so. It is
FALSE in the run and a hypothesis of the theorems; TLC finds `SurfaceIsGood`
and `NothingLeaks` violated if it is TRUE. Left
out: a caller who imports by descriptor an object whose handle it holds itself
(which makes libdrm and the caller share a handle), the bo of the batch (shared
with nobody), and failing allocations, which change nothing.

**IntelChipset.** The id lists of `i915-pciids.h` and `intel-chipset.h` are sets
of numbers, the predicates operators over them, and `intel_get_genx()` and
`intel_is_genx()` the searches of the table with their different ends. The state
machine is `i915_create_driver()` up to the buffer manager; id 0 stands for no
chip.

**VmwgfxDriver.** `unmap_buffer()` only counts, `map_buffer()` maps anew every
time; `replaced` is a history variable with the addresses that were overwritten
that way.

**LayoutExchange.** The request is any combination of small inputs; the importer
passes the pitch, and the size or 0, and may be mistaken in header and height. The
size of a surface is the computed one, but for the i915 driver, which records
`bo->size` (line 369): `BoSize` is what libdrm makes of the size asked for, and
`RoundedUp` tells the surfaces for which that is not the size asked for. Their size
is refused by the importer, whose `check_format_size()` compares it with the
computed one (line 507): `HonestClaimAccepted` says that this, and nothing else, has
an honest claim refused, and `SizeCatchesMistakes` what the size is still good for.

## 3. Runs

| run | instance | shows |
|---|---|---|
| `rockchip_shared` | 2 processes, 2 structures each, 2 objects, 1 handle, 1 descriptor, 1 address and 1 RGA handle per process | types, ownership, no leaks, left-overs are reported, rows inside the mapping, importers agree on where the pixels are; refinement of `SharedSurfaces` |
| `rockchip_warning` | 1 process, 2 structures, 2 objects, 3 handles, 2 descriptors (one of them number 0), 2 addresses, 1 RGA handle | violated: see finding 1 |
| `rockchip_blits` | 3 surfaces (one and two header lines with two and one rows of pixels, one without RGA handle), 3 transformations, 3 colour keys, 3 blendings, 3 raster operations | no job goes over rows outside of surfaces with as many rows in all, rows are drawn below the header where the swapped rectangles agree, alpha, usage word and options reach librga as asked for |
| `i915_buffers` | 1 process, 3 structures, 2 objects, 3 handles, 1 descriptor, created surfaces for scan-out (mapped through the GTT, imported ones by the CPU), no `Reimports` | exact references, good addresses, created surfaces apart, callers keep their own, nothing open but for a surface, a caller or reuse, maps that end; refinement of `SharedSurfaces` |
| `intel_chips` | all 272 listed ids, 4 in no list, another vendor, no device | generation as listed, searches agree, which listed ids nobody knows |
| `layout_exchange` | 5 formats, 5 header sizes, 5 widths, 4 heights, 12-bit arithmetic, bos of whole pages of 512 bytes | room, which honest claims are refused, mistakes that the size shows |
| `i915_blits` | 2 surfaces of different depth, extents 0 to 2, generations 4 and 5, a map of 60 bytes | nine properties of batches and results, and that every call returns |
| `i915_fill_fits`, `i915_copies_only` | as above | violated: findings 2 and 3 |
| `i915_imported` | a created and an imported surface | violated: finding 4 |
| `vmwgfx_buffers` | 1 process, 3 structures, 3 objects, 3 handles, 4 addresses, 2 maps per buffer | own addresses, exact count, which mappings leak |
| `registry_offers` | every combination of libraries found | violated: finding 5 |

**Bounds.** `MaxNrBufs` (3 and 2) bounds `nr_bufs`, which may drift above the
number of live buffers; with two structures, three is one more than there can be
left. In `rockchip_shared` one number of each kind lets a closed number be handed
out again at once, and exports, RGA imports and mappings fail for want of a
second; several handles per process, and descriptor 0, are in the instance of
`rockchip_warning`, and for any number of them the invariants are proved. Of the two objects one has a header of a whole
line and one of a line and a half, the first fills a page of 16 bytes exactly and
the second does not: the cases in which `hdr / pitch` and the rounded-up count,
the file size and the computed size agree and differ. In `rockchip_shared`
descriptor 0 is taken by something else (`Fd0` is outside `Fd`), as in a process
with open standard streams; with it the promise is not kept, since such a
descriptor is never closed. `MaxMaps` (2) lets an address be overwritten both
before and after an unmap.

`i915_buffers` has one process. With two structures on one bo there is a third to
be made, shared or apart, while the two come and go; two objects and three handles
let a surface be on a second bo of its object, on a shared one or on another
object, while a bo is kept. A descriptor that outlives its surface stands for the
other process that still has the object of a kept bo. Everything but `KeepsPromise` is about one process, and what another does
reaches it only as a name or descriptor of an object that is alive, which
`CallerOpensName` and `CallerReceivesFd` bring in without asking whose it is;
two processes with two handles each are beyond the time a run may take, and the
invariants are proved for any number.

In `rockchip_blits` the values of a kind that the code treats alike are
represented by some: a transformation that stands for one flag and the one with
both flips, the four raster operations with and without the flag, `LEGACY` for the blendings
the driver does not know. Two surfaces have three rows each, of which one and two
are the header's: the destination moved by the wrong header leaves its memory, and
rows that are checked against one surface and used on the other stay inside both.

60 bytes are the smallest map (in whole words) for which
the code's assertion about the longest packet holds (the code has 256), and the
object has 4096 as in libdrm, so that the space check never helps. `Word` is 4096 in `layout_exchange`, so that
widths and sizes wrap around, and large enough elsewhere not to; the sizes that
are computed there are whole pages or not. Symmetry sets
contain only what the specifications treat alike; they are not used for liveness.

**Fairness.** Only `I915Batch` has a liveness property, `CallsReturn`, under
`WF_vars(Step)`: a call that was made runs on, for it is straight-line code and a
loop of two passes on one thread. Nothing is assumed of the GPU or the aperture,
which may fail each time, nor that calls are made.

**Deadlock** is checked except where the run may stop: `layout_exchange` (a
surface that cannot be created, or vmwgfx, which cannot import), `i915_imported`
and `rockchip_blits` (a failed assertion ends the process) and `intel_chips`
(the driver is created, or not).

Every property of a passing run has a mutant in `PROJECT.json`: an operator that
changes one modelled definition as a plausible slip would, under which TLC finds
the property violated. These operators ("a slip") stand before the definition
they vary and nothing else uses them.

## 4. Findings

1. `rockchip/rockchip-drm.c:98`: the warning of left-over buffers is also given
   when none is left, after a buffer imported by descriptor was destroyed.
   (The opposite, silence about left-overs, does not happen: a theorem.)
2. `intel/intel-i915-driver.c:745`: the fill goes on after a failed aperture
   check, in spite of its comment.
3. `intel/intel-i915-driver.c:898`: `srcrc->w != srcrc->h` lets pass blits that
   scale, which are executed as copies, and refuses copies that are not square.
4. `intel/intel-i915-driver.c:696`: a fill of an imported surface fails an
   assertion, since no import sets its `cpp`.
5. `common/drivers.c:51`: the rockchip driver is built but never offered.

The models are of builds in which assertions are compiled in; the default build
type of the project, RelWithDebInfo, leaves them out.

Observations that contradict nothing the repository says are not findings:

* Importers round header lines down where creators round them up
  (`SharedPixelsAgree` says what remains true).
* `rockchip_check_blit()` ends the program when asked about an operation that
  `get_usage_opt()` does not know (`rockchip/rockchip-drm.c:893`); the i915 driver
  answers NULL.
* The destination rectangle is moved by the source's header lines
  (`rockchip/rockchip-drm.c:840`), and a copy or blit is done with the two rectangles
  in each other's place (`:966`, `:868`), unlike the check before it (`:956`, `:850`):
  where they differ, other rows are taken and drawn over than were asked for and
  checked. This is very likely a slip, but no comment or test says what is meant. It
  leaves `NothingOutside` to surfaces with as many rows in all, and `DrawsWhereAsked`
  to copies in place between surfaces with as many header lines. A blit's alpha stays in the
  source's `rga_buffer`, from which a later copy takes it.
* A client of the i915 driver that passes on the size of a surface it was told by
  its creator is refused, unless the layout fills the bo
  (`intel/intel-i915-driver.c:507` against `:369`); it has to pass 0.
* A surface that `create_buffer()` returns may have the object of a destroyed
  surface that another process still has (`intel/intel-i915-driver.c:84`).
* Five ids of `i915-pciids.h` (0x358e, 0x2e42, 0x2e92, 0x0155, 0x0157) are known
  to no predicate and fail the assertion of `pci_id_to_gen()`
  (`intel/intel-i915-driver.c:212`): `OnlyOverlookedFail` says that no others do.
* `get_intel_chip_id()` returns 0 without a udev device, and the driver goes on
  with generation 0.
* A failed map call of i915 may give a surface another one's address
  (`FailedMapBorrows` says when), and its unmap takes a map off the other's count:
  `MapsAreUsed` bounds the count from above only.

## 5. Proofs

Every invariant and action property of a passing run is a theorem, for all values
of the constants that the assumptions allow; seven modules hold the proofs.

`RockchipProofs`, for any number of processes, structures, objects and kernel
numbers:

* `Invariance`: `Spec => []IInv`. `IInv` is `TypeOK` strengthened by what makes
  it inductive: that a live buffer's references are open, lead to its object and
  are nobody else's (`OwnsItsResources`), that every open reference is somebody's
  (`NothingLeaks`), that what the caller holds is open, and that while a driver
  is up `nr_bufs` is at least the number of live buffers, by which it is
  never counted below 0 and never 0 with buffers left. Neither `TypeOK` nor
  `LeftoversAreReported` is inductive without that: both need that a destroy
  with a handle finds the count positive. Consequences: `TypeCorrect`,
  `ResourcesOwned`, `NoLeak`, `NoSilentLeftover`.
* A second invariant, `BuffersWellMade`, is about each buffer by itself: it has a
  reference to its object (`Anchored`), its lines and size are those of a creator
  or an importer of some object's layout (`LaidOut`), and what is mapped is mapped
  whole (`MapFits`). Only the create entries establish it (the lemmas `...Makes`),
  and map, unmap and destroy keep it. With the arithmetic of layouts it gives
  `PixelsAgree` and `RowsInside`. The latter has the hypothesis `NothingWraps`:
  no requested size exceeds `uint32_t`. The code does not look for that, and a
  size that wrapped around is smaller than the rows (a hazard in `PROJECT.json`,
  and `LayoutExchange`'s `NoWrap`).
* `PromiseKept`: the refinement of `SharedSurfaces`. The pool of the abstract
  specification is the set of objects with any reference to them, and its steps
  say that the pool is what surfaces and tokens refer to. `PoolIs` shows that the
  two agree: every reference is a surface's or the caller's (`NothingLeaks`), and
  every surface has one (`Anchored`). Then every entry is one step of the promise
  (`CreateEntriesImplement`, `DestroyImplements`, `TakesImplement`,
  `ReleasesImplement`, `DeathImplements`) or changes nothing it sees
  (`MapsImplement`). The hypothesis `Fd0 \notin Fd`, that no descriptor is number
  0, is needed: such a descriptor is never closed, and TLC finds the promise
  broken without it.

`VmwgfxProofs` does so for the vmwgfx driver, with any bound on maps. `IInv` says
of each process that its buffers own their handle and address (`Owns`), that no
two have the same (`Apart`), that what is open is a buffer's or was replaced
(`CaredFor`), and that the count is exact (`Counts`). `AddressIsOwn` is not
inductive by itself: a destroy closes a handle, too, and another buffer's could
be the same. A step touches one process, so that `OneProcess` reduces each action
to that process's part. Consequences: `TypeCorrect`, `AddressOwned`,
`WarningExact`, `OnlyReplacedLeak`.

`I915DriverProofs` is about the i915 driver, with surfaces that share a bo and bos
that are used again. Its theorems have the hypothesis `~Reimports`: no process
imports an object that it exported and whose bo libdrm keeps by then. `IInv` says of
each process that every bo has as many references as users, is blank and known by
no descriptor when it has none and is not kept, is kept only without users, has at
most as many maps as mapped users, and an address only while it is mapped, one of a
mapping that exists (`BoGood`); that each surface leads to its object (`Owns`), no
two created ones to one bo (`Single`); that the caller's handles are nobody's bo
(`Keeps`); that what is open is a surface's, the caller's or kept (`CaredFor`); and
that the count and the warning are exact (`Counts`). Exact counts and handles
apart from the caller's need each other: a bo that libdrm finds again must be one
with users, for the handle of one without could be the caller's by then, or be
kept; the second is what the hypothesis is for. `Apart` is the one part about two
processes: no object has two bos that may be reused, since such a bo is allocated
on an object nobody has. With `Single` it gives `CreatedStayApart`. `Opened` sums up
the ways in which libdrm makes or finds a bo, or takes a kept one, so that the four
create entries have one proof (`Makes`); `Left` sums up those in which it frees,
keeps or goes on using a bo that a surface lets go. Consequences: `TypeCorrect`,
`ReferencesCounted`, `SurfacesGood`, `CallerKeeps`, `CreatedStayApart`, `NoLeak`,
`MapsUsed`, `WarningExact` (which no run checks: the run of the vmwgfx driver does so
for the same count); `MapsBorrow`, an action property (a bo has an address
only if it is mapped, and no more often than it has mapped users); and
`PromiseKept`, the same refinement as the rockchip driver's, here without a
hypothesis on descriptors. A kept handle is a token of the promise: a surface that
is destroyed is dropped or becomes a token (`DestroyImplements`), one that is
created comes from a new object or from a token (`MakesImplement`), and tokens are
given up by the caller, by libdrm and with the driver (`GivesUp`).

`RockchipBlitProofs` is about any surfaces, header lines, rectangles and
requests. `IInv` adds to `TypeOK` that the job that is checked is the one the call
asks for (`IsJobOf`), that the call's arguments are in range (`IsCall`), and that
what is submitted was checked, but for its rectangles, which are swapped
(`AsChecked`). `Inside` then needs surfaces with as many rows, for each rectangle
was checked against the other one's surface. Consequences:
`TypeCorrect`, `Inside`, `AsAsked`. `BlitAsAsked` needs besides that the alpha
and the usage word prepared for a blit are kept until it is submitted
(`BlitPrepared`), and that a usage word and options come from one request only
(`UsageTells`).

`I915BatchProofs` is about any surfaces, extents, generations and sizes. `IInv`
has the types, what the batch holds and what was handed over at every value of `pc`
(`Progress`: a batch is empty but between a packet's emission and its flush, and
then holds that packet with its own relocations), and that a copy is past the
aperture loop only if it passed it (`CopyPassed`). Emitting into an empty batch
and flushing it are two lemmas (`EmitPacket`, `FlushPacket`) for all packets, over
lemmas about what ends a batch (`TerminatedWords`, `PacketBatch`,
`PacketRelocations`). Consequences: `TypeCorrect`, `MapFits`, `Ended`,
`RelocsOwn`, `OnRightRing`, `NothingLeft`, `ResultsTrue`, `CopiesFit`.

`LayoutExchangeProofs` is about any formats, header sizes and extents and any
width of the unsigned type. Lemmas about the arithmetic (`Rounds`, `PitchFits`,
`HeaderFits`, `SizeExact`) say what pitch, header lines and size are when nothing
wraps around, whatever size libdrm makes of the one asked for (`BoSizeAssumption`:
it is no smaller); `IInv` says that a layout is that of the request and a verdict that
of the test on the claim (`Judged`). Consequences: `Room`, `HonestAccepted` (with
wrap-around, too), `MistakesCaught`.

`IntelChipsetProofs` is about any set of ids. Its lemmas are about the lists:
those of newer generations have no id in common (`NewerApart`), no older chip is
in the table (`OlderNotInTable`), and the predicates, asked in the code's order,
give an older chip the generation it is listed under (`OlderIsListed`) unless it
is one of the five that are overlooked. `SearchesAgreeOn` needs of the table only
that it is sorted, and holds of every id. Consequences: `TypeCorrect`,
`ListedIsGiven`, `SearchesAlwaysAgree`, `FewFail`.

Assumptions: `SlotAssumption` (handles, descriptors, addresses and RGA handles
are different kinds of things, None is none of them), `ConstantAssumption`,
`PitchAssumption`, `WordAssumption`, `VmwgfxAssumption`, `BlitAssumption`,
`OperationAssumption` (transformations and colour keys are those that
`get_usage_opt()` has cases for), `BufAssumption` (a process has finitely many
surfaces), `WayAssumption`, `BatchAssumption`, `ReserveAssumption` (the code's
assertion about the longest packet, and reserved space for the words that end a
batch), `RequestAssumption`, `BoSizeAssumption` and
`ChipAssumption`; TLC evaluates them in the runs.
One lemma per action states which parts of the invariant it must restore; `Bind`
and `Release`, and a buffer's slots, have lemmas of their own. The inductive
invariants were checked by TLC on the instances of section 3 before they were
proved.

Model-checked only: `CallsReturn`, liveness under fairness, which is out of the
prover's reach. The findings' properties are refuted by TLC and have no theorem.

## 6. Not modelled

* Register and packet constants (named words stand for them), the rockchip kernel
  interface header, compatibility and platform headers (no behaviour of their
  own), the build system except for the conditions in `DriverRegistry`.
* libdrm, libdrm_intel, librga, udev and the kernel but for what the drivers rely
  on (`GemKernel`, `LibdrmIntel`, the checks in `RockchipBlit`, `Node`).
* Memory exhaustion in the process (`calloc`, `malloc`) apart from entries that
  fail as a whole; what happens after a division by a pitch of 0; colours, and
  coordinates in the command words; columns of rectangles.
* Surfaces that come and go between the i915 blits: `I915Batch` has a fixed set of
  them. `NothingPending` is what makes the two parts independent: no command
  names a surface between two calls.

## 7. Plan

Done: layout, the lifecycle of buffers in all three drivers with their common
abstract specification, the 2D operations of rockchip and i915, chip
identification, the registry; proofs of all invariants, action properties and
refinements that the passing runs check. What would come next:

1. What `SharedSurfaces` itself implies (the pool is what surfaces and tokens
   refer to), which the two refinements then give to both drivers.
2. For which drivers `BuiltIsOffered` holds; the remaining one is finding 5.
3. What holds of `RowsInsideMapping` when a requested size wraps around.
