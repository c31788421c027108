# TLA+ models of the TLBlur SGX-Step toolkit

This directory holds TLA+ models of the Rust code under `src/app`, with the TLC
configurations that check them. `PROJECT.json` lists every component,
run, mutant, source mapping, finding and hazard in machine-readable form.

## 1. The system

Two programs share one core.

**The profiler** (`src/app/profiler`) evaluates the TLBlur defence. It
single-steps an enclave. After every enclave instruction a SIGTRAP handler
runs, registered by `create_trap_handler` (lib.rs) and holding a global
mutex. The handler is the closure in `main` of `tlblur.rs` and runs these
steps in order:

1. `PAM::update_pam` mirrors the enclave's page-access map (PAM).
   - The instrumented enclave keeps one 64-bit counter per page (`__tlblur_pam`) and a global counter (`__tlblur_counter`).
   - The profiler keeps `pws_size` entries, the pages it will prefetch.
2. On the first trap only, it clears the A/D bits of every PTE and returns. This primes the page table.
3. It writes the optional debug traces.
4. `PageTable::update_page_accesses` samples the A/D bits: accessed gives read, dirty gives write.
5. `PageTableObservations::update` records the samples that miss the simulated `HardwareTLB`.
6. The `Attacker` decides whether it could interrupt (`can_trigger_interrupt`) and whether it can observe. If it can observe, a VCD frame is written (`observe`).
7. `handle_step` runs. Then either:
   - on an interrupt: `handle_interrupt`, a TLB flush, and unless `--no-prefetch` the TLBlur prefetch (mirror entries, stack pages, the `tlblur_pam_update` code page, the counter page, the PAM pages); or
   - otherwise: the TLB caches the instruction's accesses.
8. All A/D bits are cleared.

**The libjpeg attack** (`src/app/libjpeg/attack`) reconstructs a JPEG from
page faults.
- A `JpegState` machine has a page range per state and an ordered successor list.
- `JpegReconstruct` turns the number of data-page accesses per IDCT block into pixels.
- In enclave mode, `fault_handler` advances the machine on every fault, revokes the pages of the new state's successors, and restores the faulting page. With `--aexnotify` it restores the last two faulting pages instead.
- In ocall mode (no fault handler), the instrumented enclave reports rows, all-zero coefficient rows and IDCT blocks through `ocall_next_row`, `ocall_all_zero` and `ocall_idct_islow`, which feed `JpegReconstruct` directly.
- In trace mode, `attack_vcd` replays the rising edges of a recorded waveform through the same machine.

**The tracer** (`src/app/profiler/src/tracer.rs`) records such waveforms. Its
SIGTRAP handler samples the A/D bits, writes them as one step of an `RSet`
VCD trace (with the erip under `--erip`) and clears them. Unlike the tlblur
handler it has no priming first trap.

**The VCD writer** (dump.rs) encodes each step as a diff. `VCDStatefulSet`
keeps one bit per page wire. It writes a change to 1 for every item whose wire
is reset, then a change to 0 for every set wire whose page is not an item. The
drop of the `VCDEntry` writes the next timestamp.

## 2. Inventory

| Component | State | Operations | Module(s) |
|---|---|---|---|
| PageAccess (lib.rs) | page, r, w, x | covers, union | `PageAccess` |
| C1 page table (lib.rs) | A/D bits, `pages`, `accessed_ptes` | clear_all_ad_bits, update_page_accesses | `Profiler` (var `pte`) |
| C2 trap handler (tlblur.rs main) | `first_run` + all below | the closure | `Profiler`; with the live mirror, `TLBlur` |
| C3 hardware TLB | HashSet or LRU sets | flush, update, test, Set::{lookup,insert} (Set::invalidate is never called) | `HardwareTLB`, `TLBCache`, `TLBCompare` |
| C4 PAM mirror + prefetch | pam_buffer, pam_active, pam_counter | update_pam, get_pam, prefetch | `PAM`, `Profiler`, `TLBlur` |
| C5 attackers | kind, live_pages | can_trigger_interrupt, observe, handle_step, handle_interrupt | `Profiler` |
| C6 observations | page → union access | update, clear | `Profiler` |
| C7 JPEG machine | JpegState, JpegReconstruct | next, next_pages, reconstruct, next_row, reconstruct_block | `JpegState`, `JpegTrace` |
| C8 VCD dumper (dump.rs) | wire states, commands written, timestamp | new, init_wires, update_state (RSet, RWXSet), next_step, write_erip, drop | `VCDDump` (frames only in `Profiler`) |
| C9 attack driver | GlobalState, revoked pages, ZERO_COUNT, SKIP_FIRST | attack_enclave, protect_next_pages, fault_handler, ocall_* | `JpegAttack`, `JpegOcall` |
| tracer.rs | A/D bits, dumper | the trap handler closure | `Tracer`; with `attack_vcd`, `TraceAttack` |
| build.rs, CLI | — | — | not modelled |

The components interact in four ways.
- The trap handler composes C1, C3, C4, C5, C6 and C8 in one atomic step. The mutex in `trap_handler_wrapper` serialises handlers, and the enclave is stopped while the handler runs.
- The enclave's instrumentation and `update_pam` communicate through enclave memory. Their only protocol is that the slot is written before the counter is bumped. `TLBlur` composes this with the trap handler, whose prefetch installs the mirror `update_pam` just computed.
- In the attack, the victim's instructions and `fault_handler` interleave through page faults.
- The tracer records, through the VCD writer, the file that `attack_vcd` replays; `TraceAttack` runs both attacks on one victim run and compares them.

The behaviours that make this code hard are listed as hazards in
`PROJECT.json`. In short:
- the order in which update_pam scans pages, and page 0 as the empty marker;
- the trap landing between the slot write and the counter bump;
- duplicate TLB entries caused by the covers check;
- LRU eviction at capacity;
- stale observations and live pages across interrupts;
- prefetch permissions, and the stack-page underflow;
- later prefetches evicting mirror entries in a set-associative TLB;
- the order of protect and restore in fault_handler;
- livelock on cross-page loads without the working set;
- the block that is never committed at the end;
- colour rotation across rows;
- the numeric edges of rendering;
- the diff encoding of the VCD writer (a repeated rise, a missed reset);
- the missing priming trap of the tracer;
- the order of ocalls against `SKIP_FIRST` and `ZERO_COUNT`.

## 3. Modules

- **`PageAccess`**: the access record.
  - `Covers` and `Union` are `covers`/`union` (lib.rs 30-54).
  - `DefaultAccess` is the derived default (page 0, no rights).
- **`PAM`**: `update_pam` together with the enclave instrumentation.
  - The variables are the enclave's map and counter, the profiler's copy (`pam_buffer`), the mirror (`pam_active`) and `pam_counter`.
  - `Recent`, `EvictionKey`, `Victim` (first entry of least key, as `min_by_key` returns) and `InMirror` are the conditions on lines 107-127.
  - `ScanMirror` folds `ScanPage` over the pages in index order.
  - The enclave side is modelled from the spec, because that code is not in the repository: `InstrWriteSlot` writes slot := counter+1, then `InstrBumpCounter` bumps the counter.
  - Every instruction is followed by `Trap`, which is `update_pam`.
- **`HardwareTLB`**: the TLB as a value (`[kind, pages]` or `[kind, sets]`) with one operator per method. `PopFront` is `VecDeque::pop_front`, which leaves an empty set empty; `WaysPerSet = 0` is allowed.
  - A set is a sequence ordered LRU first, like the `VecDeque`.
  - `SetInsert` promotes the first covering valid entry on a hit. On a miss it pops the front of a full set and pushes.
  - `Update` folds `Insert` over the accesses in iteration order.
  - The module also declares `hw_tlb` with actions, so that other modules can `INSTANCE` it.
- **`TLBCache`**: the abstract specification, that is, what any TLB promises the profiler.
  - Flush empties it.
  - Insert adds nothing but the access, leaves the access a hit, evicts nothing on a hit and at most one entry on a miss.
- **`TLBCompare`**: both organisations driven by the same stream of flushes and updates. (`Set::invalidate` exists in tlblur.rs but nothing calls it, so it is not an action.)
  - The set-associative TLB is shown to implement `TLBCache` through `INSTANCE TLBCache WITH cached <- Contents(...)`. The perfect TLB is a `HashSet` that only grows until a flush, so its refinement would restate `HashSet::insert`.
  - It also compares the two organisations with each other.
- **`JpegState`**: operators for `pages`, `next_states`, `next` (via `SelectInSeq`, the first successor whose range holds the page) and `next_pages`.
  - It also has the `JpegReconstruct` methods. A state is a record `[tag, n]`.
- **`JpegAttack`**: `attack_enclave` plus `fault_handler` against a victim.
  - The attacker's variables are the `GlobalState` fields plus the set of revoked pages.
  - The victim's loop is modelled from the spec's page table and scenario S1, because the enclave is not in the repository: start, rows, blocks, the IDCT code page, data loads that may cross into the next data page, and (`RegisterOnly`) IDCT instructions between loads that touch only the code page.
  - An instruction `Fault`s on one of its revoked pages until none is revoked, and then it `Retire`s.
- **`JpegTrace`**: `attack_vcd`.
  - Each `Access(p)` is one `ChangeScalar(page wire, 1)`.
  - The waveform is either any sequence of `MaxSteps` accesses or the fixed `Script`.
- **`VCDDump`**: the VCD writer. The file is the sequence `log` of commands after the header: `Scalar(ch, page, v)`, `Vector(bits)` for the erip, `Stamp(t)`.
  - A wire is `<<channel, page>>`; the channels are `<<"r">>` (`RSet`) or `<<"r","w","x">>` (`RWXSet`).
  - `SetUpdate` is `VCDStatefulSet::update_state`: a fold that sets unset wires in item order, then the resets in page order (`InOrder`).
  - `PagesUpdate` runs it per channel on `Pushed(ch, items)`; `NextStep` adds the erip bits before and the timestamp after, as `next_step` and the drop of `VCDEntry` do.
- **`Tracer`**: tracer.rs with the lib.rs page table and an instance of `VCDDump`.
  - `Execute(A)` sets the A/D bits (`pte`) of one instruction; `Trap` is the handler closure: `NextStep(UpdatePageAccesses, rip)`, then the bits are cleared.
  - `Init` lets enclave initialisation leave any of `SetupStates` in the A/D bits after `PageTable::new` cleared them.
- **`TraceAttack`**: extends `JpegAttack`. Each retired victim instruction is also recorded by the tracer (`RetireRecorded`). Once the victim is done, `Replay` is the whole of `attack_vcd`: `Rises` selects the commands its loop acts on (changes of a page wire to 1) and the recursive `ReadRange` applies `ReadCommand` (one iteration of the loop) to each of them in order, reading the recording as two halves so that the evaluation stays shallow, with its own `tstate` and `trec`. `attack_vcd` runs offline on a closed file with nothing else running, so its loop is one step.
- **`JpegOcall`**: the ocall mode. Each ocall is one step, since the enclave runs one thread and an ocall runs to completion on it; the order of ocalls (made by the enclave, not in the repository) is left free, with the history `calls`.
- **`Profiler`**: the trap handler composed with the single-stepped enclave.
  - `Execute(A)`: the hardware sets the A/D bits of an instruction's pages.
  - `PrimeTrap`: the first trap.
  - `HandleTrap`: every later trap, in one step, because of the mutex.
  - It instances `HardwareTLB` and uses `ObsUpdate` for `PageTableObservations::update`, and `CanTriggerInterrupt`, `CanObserveAlways`, `HandleStep` and `Observe` for the attacker.
  - `Prefetch` is the prefetch sequence in the code's order.
  - A frame is the set of pages whose wire the `RSet` dumper sets, which are the accesses with the read bit.
  - The mirror `pam_active` is a variable. `HandleTrap` prefetches `pam_active'`, the mirror as `update_pam` left it at the top of the same trap. Alone, `Profiler`'s `Next` leaves it at the constant `PamActive`.
- **`TLBlur`**: `Profiler` composed with `PAM` (two `INSTANCE`s sharing `phase` and `pam_active`).
  - Every enclave instruction is a step of both components:
    - `RecordAccess(p)` is the instrumentation's slot write (page table: the `tlblur_pam_update` code page and the PAM page);
    - `PublishAccess` is its counter bump (the code page and the counter page);
    - `VictimInstruction(A)` is any other instruction, which leaves the map alone.
  - `PrimeTrap` and `HandleTrap` are `PAM`'s `Trap` (`update_pam`, the first call of the closure) conjoined with `Profiler`'s trap, so the prefetch installs the mirror the same trap computed.
  - The history `hot` is the working set the enclave had published (counter bumped) at the last interrupt.

The MC modules (`MCPAM`, `MCTLBCompare`, `MCJpegAttack`, `MCJpegTrace`,
`MCProfiler`, `MCTLBlur`, `MCVCDDump`, `MCTracer`, `MCTraceAttack`, `MCJpegOcall`) give the constants their values.

## 4. Runs

| Run | Expect | What it shows |
|---|---|---|
| `pam_pws1` | violation | With `--pws-size 1` the scan in index order lets an older recent page replace the newest. |
| `tlb_refinement` | pass | The set-associative TLB refines `TLBCache` (a hit evicts nothing, a miss at most one entry), and a set-associative hit is always a perfect hit. 3 pages × {r, rw}, 2 sets × 2 ways. |
| `jpeg_attack_aex` | pass | With `--aexnotify`: after every fault the successors' pages are revoked (`NextPagesRevoked`), and no instruction faults more often than it has pages (`InstructionFaultsBounded`), cross-page loads and register-only instructions included. In the finite victim this is what makes `decompress_image` return: a fault is always enabled while a page of the instruction is revoked. |
| `jpeg_trace` | pass | Every waveform of 18 accesses over one page of each range and two data pages, in colour mode. It checks the spec's row law, the block commit law and colour rotation across rows. |
| `jpeg_trace_s1` | violation | The spec's S1 yields `[[[3,1],[]]]`, not `[[[2,1],[1]]]`. |
| `tlblur_singlestep` | pass | `TLBlur` (profiler, live mirror and instrumentation): single-step attacker, perfect TLB, prefetch, 13 instructions over an 8-page enclave with 3 tracked pages, a 2-entry mirror and counter ≤ 5. After every trap the mirror holds the most recent pages of the map it copied (`MirrorHoldsMostRecent`). Every frame is sound and complete (`FrameSound`, `FrameComplete`). Right after an interrupt, an instruction touching only the published working set and TLBlur's own pages gives no interrupt (`WorkingSetHidden`). |
| `profiler_stack_prefetch` | violation | After an interrupt, the stack push of `tlblur_pam_update` misses the TLB, because the stack pages are prefetched without write permission. |
| `trace_vs_fault_attack` | pass | Without `--aexnotify`, over every victim run of at most 16 instructions (2 rows × 2 blocks, up to 3 IDCT instructions per block, register-only ones included): `fault_handler` keeps the successors revoked and every instruction retires, the tracer's recording loses no change (`RecordingShowsLastStep`), and `attack_vcd` on the recording ends in `fault_handler`'s state with the same rows and blocks and at least as many accesses in every block (`RecordingShowsEveryFault`). |
| `trace_vs_fault_attack_gap` | violation | Without `--aexnotify` the two attacks still disagree (`SameReconstruction`): load 150, a register-only instruction, load 150 again takes one fault, while the recording shows two rising edges of page 150. |
| `trace_vs_fault_attack_aex` | violation | With `--aexnotify` a load back to the previous data page takes no fault, so the online attack counts less than the replay, even for a victim that issues only loads (`RegisterOnly = FALSE`). |
| `tracer_first_frame` | violation | The tracer's first step also shows pages enclave initialisation touched, because its handler has no priming trap. |
| `jpeg_ocall` | pass | Every order of up to 8 ocalls in colour mode: each block is in the buffer at its row and colour with the all-zero reports since the block before, and nothing else is. |

Every property of every passing run has a mutant in `PROJECT.json`: a
plausible bug in the mapped definition that TLC detects under the run's own
configuration.

Further configurations are kept beside the runs. They are not in
`PROJECT.json`'s runs, and each reproduces a result listed under hazards:

| Configuration | Result |
|---|---|
| `MCPAM.cfg` | `MirrorHoldsMostRecent` holds for `PAM` alone, with 4 pages (1..3 tracked) and counter ≤ 6. |
| `MCPAM_page0.cfg` | `MirrorHoldsMostRecent` violated: page 0 is never mirrored, because it is the empty-entry marker. |
| `MCTLBCompare_dup.cfg` | `OneValidEntryPerPage` violated: `{p,r}` then `{p,rw}` gives two valid entries for `p` in one set. |
| `MCJpegAttack_noaex.cfg` | `NextPagesRevoked`, `InstructionFaultsBounded` hold without `--aexnotify` for `JpegAttack` alone. |
| `MCJpegAttack_render.cfg` | `ImageRenders` violated: a one-block image commits no block, and `reconstructed_bitmap` indexes the median of an empty buffer. |
| `MCTLBCompare_ways0.cfg` | `TypeOK` violated with `--ways 0`: `pop_front` on an empty set does nothing, so the set grows past its capacity from the second insert on. |
| `MCProfiler_stealthy.cfg` | `FrameSound`, `FrameComplete` hold for the `Stealthy` attacker with `--no-prefetch` and a 2×1 set-associative TLB: it never interrupts, observes every step, and `handle_step` clears its observations after each. |
| `MCProfiler_pf.cfg` | `FrameSound`, `FrameComplete` hold for the `PageFault` attacker (with `--observe-ptes`, its only possible value) and a 2×2 set-associative TLB. |
| `MCProfiler_debug.cfg` | `FrameSound` holds for `DebugSingleStep` with `--no-prefetch` and a 2×1 set-associative TLB. |
| `MCVCDDump.cfg` | `WaveformShowsLastFrame` holds for an `RWXSet` over 3 pages and every sequence of 3 steps. |
| `MCTracer.cfg` | `StepShowsInstruction` holds: from the second step on, the tracer shows exactly the stepped instruction's pages. |
| `MCProfiler.cfg` | `FrameSound`, `FrameComplete` hold for `Profiler` alone with a constant mirror, 10 instructions over 7 pages. |
| `MCTLBlur_sa.cfg` | `WorkingSetHidden` violated with a 2×2 set-associative TLB: the stack, update code and PAM prefetches that follow the mirror evict its entry for the victim's code page. |

### Bounds

Each bound is chosen so that the interesting case happens.
- **PAM:** the counter reaches 6, so each of the 3 pages is evicted and refilled.
- **TLB:** 3 pages on 2 sets puts two pages in one set, and 2 ways fill it, so eviction, promotion and duplicate entries all happen.
- **JpegAttack:** 2 rows × 2 blocks × 3 IDCT instructions (so a register-only instruction can fall between two loads) takes the machine through every state and every transition, including both successors of `PreIdctSlow` and of `DataCount`.
  - `MaxFaultsPerInstr = 4` is one more than the largest instruction (code + two data pages), so a livelock shows up as a violation instead of being cut off.
- **JpegTrace:** 18 accesses is enough for two rows of several blocks with all three colours.
- **VCDDump:** 3 pages and 3 steps let a page stay set, be reset and be set again, with every combination of the three channels.
- **Tracer:** 4 pages, 4 steps, and a setup state with pages set, so the first step's leftovers and a later step's disjoint pages both occur. `Wires` are the pages with a PTE; pages no frame can hold are left out, since their wires stay reset.
- **TraceAttack:** the recording properties are evaluated before `attack_vcd` starts reading (`Replay` leaves the recording unchanged). The recording keeps the whole history, so every victim run is its own path; `MaxTraceSteps = 16` bounds a run to 16 instructions, which is the 14 of the shortest run through 2 rows × 2 blocks plus two, enough for load, register-only instruction, load in one block. That keeps the run at about 200,000 states. `MaxLoads = 3` is needed for both divergences: 150, 151, 150 (`--aexnotify`) and 150, register-only, 150.
- **JpegOcall:** 8 ocalls in colour mode cover a skipped first row report, blocks in two rows, and all-zero reports on both sides of a block.
- **TLBlur:** 3 tracked pages and a 2-entry mirror make the third recorded page evict one. A record takes two instructions (slot write, counter bump), so counter ≤ 5 with 13 instructions lets every page be evicted and recorded again, with interrupts and victim accesses between records. Page 0 holds uninstrumented runtime code, so the mirror's placeholder entry on page 0 is read after a prefetch.
- **Profiler:** 10 instructions is enough for interrupt → prefetched step → cached step sequences, for several interrupts, and for an instruction that touches the placeholder page 0 after a prefetch.

### Fairness

No liveness property is checked, and no fairness is assumed. The one a
reader would ask for, that `decompress_image` returns under the attack,
follows from a safety property in this finite model: the victim issues
finitely many instructions, and `InstructionFaultsBounded` keeps each one
below `MaxFaultsPerInstr`, so whenever a page of the current instruction is
revoked a `Fault` is enabled, and otherwise `Retire` is. A liveness check
under weak fairness of `Next` was dropped because every mutant that broke it
also broke `InstructionFaultsBounded`.

Runs with `CHECK_DEADLOCK FALSE` end when the enclave returns:
- the victim's loop ends, or
- the profiled instruction budget is used up.

`JpegTrace` ends with an explicit stuttering `Done` step.

## 5. Findings

The findings of the violation runs (`PROJECT.json` "findings") are
`--pws-size 1`, S1, the stack prefetch, `--aexnotify` and the register-only gap. The others
are reproduced by the further configurations of section 4 and are listed as
hazards.

- **`update_pam` never mirrors page 0.** Page 0 is the empty-entry marker (tlblur.rs:122).
- **`--pws-size 1` keeps the wrong page.** The index-order scan keeps the older page (tlblur.rs:105).
- **Duplicate valid entries per page in a set.** This contradicts the spec's data model (tlblur.rs:189).
- **`--ways 0` gives an unbounded set.** `Set::insert` evicts only when `len() == capacity`, which holds only for an empty set (tlblur.rs:199).
- **S1 does not give the spec's result.** The trailing block is never committed and the first block counts 3 (main.rs:569).
- **Stack pages are prefetched without write permission.** This breaks "capability-preserving" prefetch (tlblur.rs:651).
- **The tracer has no priming trap.** Its first step reports pages enclave initialisation touched (tracer.rs:45).
- **`--aexnotify` makes the online attack disagree with the replay.** The working set hides a return to the previous data page (main.rs:376).
- **Even without `--aexnotify` the online attack and the replay disagree.** The restored page stays accessible, so a load of it after a register-only instruction takes no fault, while the recording shows a new rising edge (main.rs:383).
- **`reconstructed_bitmap` panics for a one-block image.** The median index is taken in an empty buffer (main.rs:106).

## 6. Not modelled, and the plan for later

- **The Stealthy and PageFault attackers** are checked by `MCProfiler_stealthy.cfg` and `MCProfiler_pf.cfg` only, since the twelve runs are spent elsewhere. `--observe-ptes` is a flag with default `true`, so `observe_ptes: false` cannot be configured; the constant `ObservePtes` is kept at `TRUE`.
- **`Set::invalidate`** is never called and is not modelled. An abstract "attacker view" specification that `Profiler` refines is left for later.
- **`--sets 0`** makes `get_set_index` compute `page % 0`, which panics in the signal handler at the first TLB update. A panic is not a state an invariant can speak about, so `HardwareTLB` assumes `NumSets > 0`. `--ways 0` is modelled (see above).
- **Bitmap rendering** beyond the median index (floating point), **CLI parsing**, **enclave creation**, **library loading** and **`build.rs`** are not modelled. They are I/O or contain no state machine. Their numeric edges are listed as hazards.
- **Memory growth of `accessed_ptes`** and **the 8x PAM prefetch range** need enclave sizes far beyond TLC's reach. They are listed as hazards.
