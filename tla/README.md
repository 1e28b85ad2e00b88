# Formal models of SALVIA's render core, pixel-shader runtime, application shell and samples

This directory holds TLA+ models of the parts of SALVIA (a software
rasterizer) whose code is in `src/`. It contains TLC configurations that
model-check them on small instances and TLAPS proofs of their main
invariants. All paths below are relative to the repository root.

## The system and its parts

| Part | Code | Model |
|---|---|---|
| Render Core: the command dispatcher | `src/salviar/src/render_core.cpp`: constructor, `update`, `execute`, `draw`, `clear_color`, `clear_depth_stencil` | `RenderCore` |
| Constant-buffer binder | `render_core.cpp`: `apply_shader_cbuffer` | `RenderCore` (inside the draw) |
| Triangle derivative context | `src/salviar/src/pixel_shader.cpp`: `triangle_info` | `PixelShader` |
| Pixel-shader runtime | `pixel_shader.cpp`: `execute`, `ddx`/`ddy`, the eight texture functions | `PixelShader` |
| Pipeline stages and samplers | not in this repository | abstracted (see below) |
| Shading-language compiler and JIT tests | `src/sasl/...` | not modelled |
| Generated enumerations | `src/softart/softart/src/enums/cubemap_faces.cpp`: the debug registry, the constructor, `cast`, the constants' static initialisers | `EnumRegistry` (partly: `input_register_usage` has only its header here) |
| Windows application shell | `src/salviau/src/win/win_application.cpp`: `create_win_application`, `run`, `create`, `win_proc`, `process_message`, `idle`, `delete_win_application` | `AppLoop` |
| Sample programs | `src/samples/BenchmarkSponza/BenchmarkSponza.cpp` (`run`, `initialize`, `render_frame`, `save_frame`); `src/samples/Triangles/Triangles.cpp` | `SponzaFrame` (partly: Triangles runs on the WTL shell, which is not in this repository, and is not modelled) |

### How the parts interact

1. A renderer calls `render_core::update(state)` and then `execute()`.
2. `execute()` switches on `state_->cmd`.
   - A draw pushes `state_` into the five stages: assembler, rasterizer, vertex cache, host and backend.
   - It then runs `apply_shader_cbuffer`, which binds every variable and sampler of the vertex and pixel cbuffers into the vertex and pixel shader instances.
   - Last, it transforms vertices and rasterizes.
   - A clear fills a target surface.
3. During rasterization, worker threads call `pixel_shader::execute(in, out)`, one call per covered pixel.
   - `execute` points `ppxin_` at the input and runs the user program.
   - The user program calls back into `ddx`/`ddy` and the texture functions. These read the pixel through `ppxin_` and the triangle's neighbour records through `ptriangleinfo_`.
   - The rasterizer fills those records per triangle with `triangle_info::set`.
4. An interactive program runs on an application shell. `win_application` is the Windows shell in this repository. The samples here use the WTL shell instead (`create_wtl_application`, Triangles.cpp:99), whose code is not here.
   - The shell's main thread creates the window. `CreateWindow` sends `WM_CREATE`, whose handler is the program's create handler.
   - The message loop dispatches posted input. When nothing is pending it runs the idle handler (for a renderer: render a frame, then `refresh()`, as Triangles.cpp:258 does). On `WM_PAINT` it runs the draw handler, which presents the frame.
   - Closing the window sends `WM_DESTROY`, which posts the quit message. The loop ends and `run` returns.
5. The BenchmarkSponza sample drives the renderer from a plain loop of 60 frames.
   - Each frame's `render_frame` binds the addresses of its own locals as vertex-shader variables.
   - It binds each mesh's material fields as pixel-shader constants, then renders the mesh.

## Modules

### `RenderCore`: render_core.cpp

**State**

| Variable | What it models |
|---|---|
| `state_` | `render_core::state_` |
| `stage[g]` | The render state each stage was last updated with. |
| `varSlot[p][v]`, `sampSlot[p][n]` | The constant and sampler slots of each shader instance. |
| `texels[t]` | What a clear last filled surface `t` with. |
| `ret` | What the last call returned. |
| `crashed` | A null pointer has been dereferenced. |
| `used` | A history variable: what the last draw's vertex transform and rasterizer read. |

**Actions**
- `Update(s)`.
- One action per arm of `execute()`:
  - `ExecuteNoState`: `state_` is null.
  - `ExecuteDraw`.
  - `ExecuteClearColor`.
  - `ExecuteClearDepthStencil`.
  - `ExecuteUnknown`: returns `result::failed`.
- The draw contains the whole of `apply_shader_cbuffer`:
  - `BindVSVars`, `BindPSVars` and `BindSamplers` are its loops.
  - `CBufferFault` covers its null dereferences: a null cbuffer, or a name with no `sv_layout`. A null `get_reflection()` faults at the first variable exactly as a reflection with no layouts does, so it is the second case.
- The depth/stencil clear packs the stencil's bits as a float (`FloatFromBits`), not its value.

**Abstraction**
- The stages are external code. Each is modelled by the state it was handed.
- A shader instance is modelled by its slot table.
- A dereference of a null pointer is undefined behaviour that kills the process. It sets `crashed`, and no step follows.

### `PixelShader`: pixel_shader.cpp

**State**

| Variable | What it models |
|---|---|
| `slot[s]` | The triangle whose records `triangle_info` `s` points at. |
| `ptri[i]`, `ppxin[i]` | `ptriangleinfo_` and `ppxin_` of shader instance `i`. |
| `pending` | The pixels not yet handed out. |
| `cur[w]`, `busy[w]`, `out[w]` | Worker `w`'s pixel, whether it is inside `execute`, and its `ps_output`. |
| `last[w]` | The last callback of the user program and what it computed. |
| `shaded[p]` | The output `execute` returned for `p`. |

**Actions**

| Action | What it models |
|---|---|
| `SetTriangle` | `triangle_info::set` |
| `BeginExecute` | The rasterizer hands a pixel to a worker; `execute` sets `ppxin_`. |
| `UserCallback` | The user program calls `ddx`, `ddy`, `tex2d`, `tex2dlod`, `tex2dproj`, `texcube`, `texcubelod` or `texcubeproj` on a register. |
| `UserWrite` | The user program writes depth and front_face itself. |
| `EndExecute` | `execute` overwrites depth and front_face. |

Workers interleave freely.

**The arithmetic**
- The floating-point arithmetic is modelled over exact rationals (`Rat`, `VAdd`, ...). The model checks the algebra of the derivative and projection code, not its rounding.
- A triangle's homogeneous `w` and its un-divided attributes are affine in screen space.
- A pixel's input holds `w` and the attributes divided by `w`. The triangle's ddx/ddy records hold the un-divided one-pixel deltas. This is spec 4.2's convention.

**Assumptions**
- Each worker has its own shader instance (`ASSUME InstancePerWorker`). This is spec section 5's contract; the code that clones shaders is not in this repository.
- `w` is positive at every shaded pixel and its neighbours (`PixelShaderAssumption`).
- The rasterizer gives a worker a pixel only together with a `triangle_info` already set to that pixel's triangle. It refills a `triangle_info` only when no worker is reading it (`InFlight`). These two facts are spec section 5's ordering.

### `AppLoop`: win_application.cpp

**State.** `g_app`, the application object, `wnd_class_`, `hwnd_`, the OS window's life (`win`), the main thread's position (`pc`), the thread's posted-message queue, whether `PostQuitMessage` was called (`quit`), and whether the window is invalid. Also: whether `on_create` ran, the last frame's state (rendered or presented), and what the thread last ran (`last`).

**Actions.** `CreateApplication`, `ConnectHandlers`, the two outcomes of `CreateWindow` (`CreateWindowFails`, and `CreateWindowSendsCreate` followed by `CreateWindowReturns`), one action per outcome of `PeekMessage` in the loop (`LoopDispatch`, `LoopQuit`, `LoopPaint`, `LoopIdle`), `DeleteApplication`, and the user's `UserInput` (a key, or a click on the close button).

**The client.** No program of this repository calls `create_win_application`. The main thread is therefore a client that uses the interface in the only order it allows: create the application, connect the three handlers, `run()`, then `delete_win_application`. `CreateApplication`, `ConnectHandlers` and `DeleteApplication` translate the library functions that client calls (win_application.cpp:242-262 and the handler setters).

**Spec-modelled.** Windows itself is not in the repository. Its behaviour is taken from its documentation: `WM_CREATE` is sent inside `CreateWindow`; `UpdateWindow` paints at once; `PeekMessage` returns posted messages first, then `WM_QUIT`, then `WM_PAINT` while the window is invalid. The handlers are a renderer's, abstracted to the frame they render or present. The idle handler calls `refresh()` after rendering, as the samples' handlers do, so `LoopIdle` includes `refresh()`'s `InvalidateRect`.

**Abstract specification.** `AppLifecycle` states what the shell promises a program. Its state is the application object (`appA`), the window (`winA`: none, open, closed) and `run()` (`runA`: before, running, returned). Its actions:
- `Start` creates the application.
- `Open` opens the window and starts the loop; `Fail` returns from `run()` with no window.
- `Close` closes the open window.
- `Return` leaves the loop once the window is closed.
- `Delete` deletes the application once `run()` has returned.

`AppLoop` implements it under the mapping `appA <- app`, `winA <- WindowPhase` (the OS window's life) and `runA <- RunPhase`. `RunPhase` is "before" until `CreateWindow` is entered, "running" inside `CreateWindow` and the loop, and "returned" after. `CreateApplication`, `CreateWindowSendsCreate`, `CreateWindowFails`, a dispatched close click, `LoopQuit` and `DeleteApplication` are its six actions. Every other step is a stutter. The `app_loop` run checks `LifecycleRefinement == AppLife!LSpec` as a property.

**Abstract specification.** `ShadingSpec` states what a draw's pixel shading promises (spec section 5): every covered pixel is shaded once, atomically, with the output its own input determines. Its state is the set of pixels left (`todo`) and the outputs (`done`); its one action is `Shade(p)`. `PixelShader` implements it under the refinement mapping `todo <- ToShade` (the pending pixels and those a worker is inside `execute` on) and `done <- shaded`, with `Expected <- ExpectedOut` (the input's depth and front_face, `execute`'s last two assignments). `BeginExecute` is a stutter; `EndExecute` is `Shade`; the callbacks, the user's writes and `SetTriangle` change neither. The run checks `ShadingRefinement == Shading!ASpec` as a property.

### `EnumRegistry`: cubemap_faces.cpp

A generated enumeration wraps an `int`. In a `_DEBUG` build a function-local static `std::set` (`table`) registers every value the `int` constructor is called with.
- `StaticInit` constructs the declared constants in definition order. The constructor asserts on a value already in the table and otherwise inserts it (`CtorFires`).
- `Cast(val)` is `cast`. A value missing from the table asserts and is replaced by 0. Either way the result is built by the same constructor, which checks the table again.

`custom_assert` is in eflib, which is not in this repository. It either aborts or lets the program go on. An abort ends a behaviour at the step that fired, which is a prefix of the modelled behaviours, so the model records every fired assertion in `fired` and goes on. `MCEnumRegistry` gives cubemap_faces' eight values (-1 to 6) and casts of -1, 2 and 7.

### `SponzaFrame`: BenchmarkSponza.cpp

A pointer the renderer keeps is modelled by the storage it points at: a local of frame `f`'s `render_frame` (`<<"wvp", f>>`), or a field of mesh `m`'s material (`<<"mtl", m, "ambient">>`). `live` is the storage that exists. `drawn` records what the last `render()` read. Actions: `Initialize`, `BeginFrame` (the frame's locals come into existence), `BindFrameState`, `BindMaterial` and `Render` per mesh, `EndFrame` (the locals die), `SaveFrame`.

### MC modules

`MCRenderCore` and `MCPixelShader` give the constants small values.

`MCRenderCore` has:
- one vertex and one pixel shader instance;
- three cbuffers: two with different variable sets, and one whose variable the shader's reflection does not know (it reaches the `sv_layout` fault);
- three variable names, one of them an array;
- one sampler name;
- two targets, two colours, two depths and two stencils (0 and 255);
- a render-state set with both draw commands, both clears and an unknown command.

`MCPixelShader` has:
- two workers with their own instances;
- one `triangle_info`, refilled between triangles;
- two triangles whose `w` grows in different directions;
- three pixels;
- two registers:
  - register 0 holds the position (its `w` is `w`);
  - register 1 holds a direction (`w = 0`, which exercises `invq`'s zero test).

`MCAppLoop` has one window handle and lets the user post up to three inputs.

## Runs

### Passing runs

| Run | Properties | What it shows |
|---|---|---|
| `render_core` | `TypeOK`, `CommandEffects` | For any sequence of updates and executes, including render states that fault (null cbuffers, a variable without `sv_layout`, unbound clears), every command that returns does what spec 8 documents for it: a draw writes no surface, a clear changes only its own target and no binding, and any other command returns `failed` and changes nothing. |
| `pixel_shader` | `PSTypeOK`, `CallbacksReadOwnPixel`, `DerivativeCorrect`, `ShadingRefinement` | While the other worker repoints its instance and the rasterizer refills the `triangle_info`, four things hold. Every callback reads its own pixel and triangle. `ddx`/`ddy` equal spec 8's perspective-correct reference (the difference of `A/w` between neighbouring pixels). The runtime implements `ShadingSpec`: every pixel is shaded once, with its own input's depth and front_face. No callback divides by zero (in `PSTypeOK`). |
| `sponza_frames` | `DrawsReadLiveVariables` | Over 60 frames, every draw's vertex-shader variables point at locals of the frame being rendered, although the bindings outlive each frame. |
| `app_loop` | `HandlersNeedCreate`, `NoIdleAfterDestroy`, `FramePresented`, `RunReturns`, `LifecycleRefinement` | The shell (`AppLoop`), with up to three user inputs in any order. The draw and idle handlers never run before the create handler, even when `CreateWindow` fails. No frame is rendered after `WM_DESTROY`. Every rendered frame is presented unless the window dies first. A destroyed window always leads to `run` returning and the application being deleted. The shell implements `AppLifecycle`. |

### Runs that find a disagreement

Each is recorded as a finding in `PROJECT.json`.

| Run | Property | What the code does |
|---|---|---|
| `binding_residue` | `NoResidue` | A name bound by an earlier draw stays bound into the earlier cbuffer (render_core.cpp:82). |
| `ps_array_length` | `ArraysBoundWithLength` | The pixel loop binds arrays without a length (render_core.cpp:112). |
| `execute_without_state` | `ExecuteWithoutStateFails` | `execute()` before `update()` dereferences null (render_core.cpp:34). |
| `unbound_clear` | `UnboundClearFails` | A clear with a null target dereferences it (render_core.cpp:124). |
| `tex2d_derivatives` | `Tex2dPassesDerivatives` | `tex2d(s, reg)` hands the sampler the triangle's un-divided deltas, not the register's `ddx`/`ddy` (pixel_shader.cpp:116). |
| `mip_rate_register0` | `MipRateFromPosition` | The mip-rate terms use attribute register 0's `w` delta. They are the neighbours' `1/w` only when register 0 is the position (pixel_shader.cpp:111). BenchmarkSponza's own pixel shader has a texture coordinate in register 0. |
| `enum_cast_declared` | `AssertOnlyOnUndeclared` | In a debug build, `cast` of a declared value (say `invalid`, -1) returns `cubemap_faces(val)`, whose constructor finds the value already registered by the static constant and fires `custom_assert` (cubemap_faces.cpp:38). An undeclared value asserts twice, the second time in `cubemap_faces(0)`. This is a code bug: only an unknown value should fail fast. |
| `sponza_material` | `DrawsReadOwnMaterial` | `render_frame` binds `Shininess` to `&mtl->ambient`, where the shader expects the material's shininess (BenchmarkSponza.cpp:328). This is a code bug. |

### Mutants

Every property of a passing run has at least one mutant. A mutant is a definition changed the way a plausible bug would change it; `PROJECT.json` lists them, and TLC finds the property violated with each one. Examples:
- an array is bound with its last index instead of its length;
- the depth clear fills the colour target;
- `ppxin_` is set only on first use;
- the `triangle_info` is refilled while a worker reads it;
- `ddx` divides by the other direction's `w`;
- `invq` loses its zero test;
- `front_face` is not overwritten.
- WM_DESTROY does not post the quit message;
- the frame state is bound in the first frame only;
- the draw handler is not called on `WM_PAINT`;
- `delete_win_application`'s `dynamic_cast` fails;
- `run()` enters the loop although `create()` failed (this breaks `LifecycleRefinement` too).

### Bounds

The bounds are small, but each one is chosen so that the case it guards happens:
- Two cbuffers with different variable sets make residue and rebinding happen.
- An array variable of length 1 next to one of length 4 makes a length off-by-one visible.
- Two workers and a shared, refillable `triangle_info` give the interleavings of section 5.
- Two triangles with different `w` gradients make the two directions' derivatives differ.

- Up to three user inputs let the user close the window before, between and after keys; a close click queued behind another input reaches a destroyed window.
- Sixty frames is the code's own count. Two meshes make a material binding of the wrong mesh visible.

**Deadlock checking.** The passing runs set `CHECK_DEADLOCK FALSE`.
- In `RenderCore`, the only states without a successor are those after a crash.
- In `PixelShader`, a draw ends when every pixel is shaded.
- In `AppLoop`, `SponzaFrame` and `EnumRegistry`, the program ends: `run` returns and `main` exits.

**Fairness.** Only the shell's liveness properties assume fairness. `AppSpec` makes the main thread weakly fair (`WF_appVars(MainStep)`), which the code justifies: `PeekMessage` never blocks, and `idle()` runs whenever nothing is pending, so the main thread always has a step. The user gets no fairness, because input may never come. `RenderCore` and `PixelShader` check no liveness: `execute()` is synchronous.

## What is proved (TLAPS)

`RenderCoreProofs` proves two theorems for every value of the constants that satisfies `ConstantsAssumption`.

`TypeCorrect`: `Spec => []TypeOK`.
- The proof goes through one lemma per kind of step (`DrawTypeOK`, `ClearTypeOK`).
- Those lemmas rest on typing lemmas for the binding loops (`BindVSVarsType`, ...).

Those typing lemmas rest on `ApplyVarsFacts` and `ApplySamplersFacts`. They show that the pixel loop does not overwrite the vertex instance's slots, because the two instances differ (`VSProtos \cap PSProtos = {}`).

`CommandEffectsHolds`: `Spec => CommandEffects`, an action property (every step satisfies `CommandEffect`).
- `CommandEffect` holds of a step only if the `ret` it leaves belongs to the current `state_`. A draw or clear that crashes leaves `ret` as it was, and that value may come from an earlier `execute()` of the same state.
- So the proof first shows `RetMatches` invariant. `update()` resets `ret`, and every returning `execute()` sets it from `state_`'s own command.
- `RetMatches` was checked with TLC on the `render_core` instance (133,618 states) before it was proved.
- The proof then takes one step per arm of `execute()`. A successful clear changes only its own target (`FillOnlyTarget`).
- The proof needs `Null \notin {"ok", "failed"}` in `ConstantsAssumption`: the null pointer is not one of the result codes.

Also proved: each binding loop is idempotent (`BindVSVarsIdempotent`, `BindPSVarsIdempotent`), which is spec 8's "binding the same cbuffer twice".

`PixelShaderProofs` proves `CallbacksReadOwnPixelHolds`: `PSSpec => []CallbacksReadOwnPixel`, for any sets of workers, instances, pixels and `triangle_info`s.
- It assumes `InstancePerWorker` and the typing in `PixelShaderAssumption`.
- The inductive invariant adds `OwnPointers`: while a worker is inside `execute`, its instance's `ppxin_` is its pixel and its `ptriangleinfo_` holds that pixel's triangle.
- `CallbacksReadOwnPixel` alone is not inductive. A callback reads the pointers, so it is the pointers that must be shown to be right.
- `BeginExecute` of another worker leaves them alone because instances differ (`OtherInstance`). `SetTriangle` leaves them alone because of its `~InFlight` guard.

`PixelShaderProofs` also proves `ShadingRefined`: `PSSpec => ShadingRefinement`, so the runtime implements `ShadingSpec` for any sets of workers, instances and pixels.
- The invariant `InFlightPixels` is needed first (`InFlightPixelsInvariant`). A busy worker's pixel is no longer pending, and no two busy workers hold the same pixel. Without it, `EndExecute` could not be shown to remove a pixel that was still in `ToShade`.
- Initial states map to `AInit`, because no worker is busy at the start.
- `BeginExecute` moves a pixel from `pending` into a busy worker, so `ToShade` is unchanged (`BeginExecuteStutters`).
- `EndExecute` of worker `w` is `Shade(cur[w])` (`EndExecuteShades`).
- Every other step changes neither `ToShade` nor `shaded`.

`PixelShaderProofs` also proves `DerivativeCorrectHolds`: `PSSpec => []DerivativeCorrect`. It holds for any workers, pixels, registers and affine triangles.
- `RehomogeniseIdentity` carries the arithmetic. Re-homogenising `A/W`, adding the delta and dividing by the neighbour's `W + gW` gives `(A + gA)/(W + gW) - A/W`. As cross-multiplied fractions the two sides are equal polynomials, so Z3 proves the identity for all integers.
- `AtStep`: an affine function one pixel over grows by its gradient.
- `DerivativeOfOwnPixel` combines the two for any pixel, direction and register.
- The invariant adds `LastRecord`: a worker's last callback holds what that callback computes for the recorded input, triangle and register. With `CallbacksReadOwnPixel`, the recorded input and triangle are the worker's own pixel's.

`AppLoopProofs` proves two theorems for every `MaxInput`:
- `AppTypeCorrect`: `AppSpec => []AppTypeOK`.
- `ShellSafetyHolds`: `AppSpec => [](HandlersNeedCreate /\ NoIdleAfterDestroy)`.

The invariant they share adds `Lifecycle`:
- in `CreateWindow` and in the loop, the window exists and `on_create` has run;
- a destroyed window has posted the quit message.

The second fact is what keeps `idle()` from running after `WM_DESTROY`.

`SponzaProofs` proves `DrawsReadLiveVariablesHolds`: `SFSpec => []DrawsReadLiveVariables`, for any number of frames and meshes. It needs `FrameLocalsBound`:
- from `BindFrameState` until `render_frame` returns, that frame's locals are live;
- the vertex-shader variables point at them.

`render()` snapshots both, so the draw it records reads live storage. TLC checked the strengthening on the `sponza_frames` instance before it was proved.

`PixelShaderTypeProofs` proves `PSTypeOKHolds`: `Register0Divisors => (PSSpec => []PSTypeOK)`. It holds for any workers, pixels, registers and triangles with `w` positive at each shaded pixel and its right and lower neighbours (`PixelShaderAssumption`). The runtime stays well typed, and no callback divides by zero.
- The hypothesis `Register0Divisors` states exactly what the code leaves unchecked. At every shaded pixel, `position.w + get_original_ddx(0).w` and `position.w + get_original_ddy(0).w` are non-zero: these are the divisors of the mip-rate terms (pixel_shader.cpp:111). It is a hypothesis of the theorem, not an `ASSUME`, because nothing in the code justifies it. It depends on what the vertex shader writes into register 0. Both attribute layouts of `MCPixelShader` satisfy it.
- `ddx`/`ddy` need no hypothesis. They divide by the neighbour's `w`, which is positive (`NeighbourW`, `DDefined`).
- `invq` needs none either, because it tests `v.w` against zero first (`InvQDefined`).
- The arithmetic rests on closure lemmas. `GoodRat` is an integer fraction with a non-zero denominator. `RatClosed` and `VecClosed` show that sums, differences and products keep it, and quotients keep it when the divisor is non-zero. `InputDefined` and `DeltaDefined` show that the rasterizer's records are well formed.
- `CallbackDefined` takes the eight callbacks one by one.
- The inductive invariant is `TInv`: `DInv` (the pointers and the record of the last callbacks, as for `DerivativeCorrectHolds`) plus `OutTypeOK` (what `execute` and the user program write is an output). TLC checked `TInv` on the `pixel_shader` instance (45,903 states) before it was proved.

The corollary `PSTypeOKWhenRegister0WIsW` covers the case where register 0's un-divided `w` is the triangle's `w`. This happens when register 0 holds the position, or an attribute whose `w` is 1. Then the divisors are the neighbours' `w` (`WIsWDivisors`). `MCPixelShader`'s main layout is of this kind; its `DirFirst` layout, with `w = 0` in register 0, satisfies only `Register0Divisors`.

`AppLoopProofs` proves `LifecycleRefined`: `AppSpec => LifecycleRefinement`, for every `MaxInput`. The proof shows `AppInit` maps to `LInit`, and every step maps to an `AppLifecycle` step or a stutter (`StepRefines`). It needs the invariant `Phases`, added to `AppLoopProofs`' `IInv`:
- the application is live from `create_win_application` until it is deleted;
- no window exists before `run()` calls `CreateWindow`;
- the quit message is posted only by `WM_DESTROY` (`quit => win = "destroyed"`). This is what lets `LoopQuit` be `Return`: `run()` leaves the loop only with the window closed.

TLC checked `Phases` on the `app_loop` instance before it was proved.

## Only model-checked, and why

- **`PSTypeOK` without `Register0Divisors`.** It is proved only under that hypothesis, and it is false without it. A register 0 whose `w` delta cancels the pixel's `w` makes the mip-rate term divide by zero, and the code does not prevent this (see the `mip_rate_register0` finding). TLC checks `PSTypeOK` on `MCPixelShader`'s inputs, which satisfy the hypothesis.
- **Liveness and `ENABLED`**: `FramePresented` and `RunReturns` are checked by TLC only; liveness under fairness is out of TLAPS's reach.
- **`EnumRegistry`**: its one run finds a code bug, so there is nothing to prove.
- **Induction over data**: no recursive operator is used.

## What is not modelled, and why

- **The pipeline stages, the rasterizer's setup and coverage, and the samplers' filtering.** Their code is not in this repository. The model keeps only the calls the modelled code makes on them.
- **Float rounding, and NaN/infinity from a division by zero.** Rounding is abstracted away. `PSTypeOKHolds` shows every divisor non-zero whenever register 0's mip-rate divisors are.
- **`triangle_info::base_vert` and `pixel_shader::get_pos_ddx`/`get_pos_ddy`.** Nothing in the modelled code reads them.
- **The sasl compiler and JIT tests.** They are numeric code generation, with no concurrency or protocol to check.
- **`input_register_usage`.** Only its header is in the repository; the values of its constants are in a generated `.cpp` that is not. Its `operator=` has no return statement, which is undefined behaviour with no outcome set to enumerate, and nothing in this repository uses its result.
- **A cast from another translation unit's static initialiser**, which could run before cubemap_faces' constants are registered. Nothing in the repository calls `cast`, so the model lets only `main` cast.
- **Windows, the WTL shell and `quick_app`.** They are not in this repository. The Triangles sample runs on them, so it is not modelled: when its handlers run depends on code that is not here. The Win32 behaviour `AppLoop` relies on is modelled from its documentation.
- **The samples' shader programs, matrices and timing.** They are arithmetic with no state shared between calls.
- **A null material in BenchmarkSponza** (line 322). Which attachments a loaded mesh has is decided by code outside this repository, so every mesh has a material in the model.
