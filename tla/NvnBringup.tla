----------------------------- MODULE NvnBringup -----------------------------
(***************************************************************************)
(* How the overlay comes up inside the game's renderer: the wrappers that  *)
(* nvn_hooks.cpp hands to the game and what they remember, ImGui's memory  *)
(* (imgui_alloc.cpp), the stages of OnPresent (imgui_overlay.cpp) before   *)
(* its first drawn frame, and the font atlas (font_loader.cpp).            *)
(*                                                                         *)
(* The game calls the driver in an order of its own.  Bringup is the part  *)
(* of a frame that OverlayInput's Frame is made of; the other actions are  *)
(* what happens between two frames.                                        *)
(***************************************************************************)
EXTENDS Integers

CONSTANTS
    kMaxSwapchainTextures,  \* slots for the textures of a window
    WindowSizes,            \* numbers of textures the game gives a window
    MaxWindows              \* bound: windows that the game builds

ASSUME SwapchainAssumption ==
    /\ kMaxSwapchainTextures \in Nat \ {0}
    /\ WindowSizes \subseteq Nat \ {0}
    /\ MaxWindows \in Nat

VARIABLES
    installed,      \* InstallHooks found nvnDeviceGetProcAddress and hooked it
    procs,          \* the game holds the wrappers, g_orig_* their originals
    device, queue, cmd_buf,         \* g_device, g_queue, g_cmd_buf are not null
    sys_heap,       \* the game has set up its system allocator
    shell,          \* g_ptMainRWindow is set: the game's shell is up
    ctx,            \* g_imgui_ctx_initialized
    cpp_loaded,     \* g_cpp_procs_loaded
    backend,        \* g_backend_initialized
    requested, base_loaded,         \* the shared font: asked for, loaded
    attempted,      \* g_font_build_attempted
    built,          \* IsFontAtlasBuilt()
    window, size,   \* windows built so far; number of textures of the last one
    count, textures     \* g_swapchain_texture_count, g_swapchain_textures

objects   == <<installed, procs, device, queue, cmd_buf>>
stages    == <<ctx, cpp_loaded, backend>>
fonts     == <<requested, base_loaded, attempted, built>>
swapchain == <<window, size, count, textures>>
bringup   == <<objects, sys_heap, stages, fonts, swapchain>>

Slots == 0..(kMaxSwapchainTextures - 1)

\* Texture 0 is the null pointer; texture w belongs to window w.
BringupTypeOK ==
    /\ {installed, procs, device, queue, cmd_buf, sys_heap, shell, ctx,
        cpp_loaded, backend, requested, base_loaded, attempted, built} \subseteq BOOLEAN
    /\ window \in 0..MaxWindows
    /\ size \in WindowSizes \cup {0}
    /\ count \in 0..kMaxSwapchainTextures
    /\ textures \in [Slots -> 0..MaxWindows]

\* MainInit has called Initialize, which gives up when the symbol is missing.
BringupInit ==
    /\ installed \in BOOLEAN
    /\ procs = FALSE /\ device = FALSE /\ queue = FALSE /\ cmd_buf = FALSE
    /\ sys_heap = FALSE /\ shell = FALSE
    /\ ctx = FALSE /\ cpp_loaded = FALSE /\ backend = FALSE
    /\ requested = FALSE /\ base_loaded = FALSE /\ attempted = FALSE /\ built = FALSE
    /\ window = 0 /\ size = 0 /\ count = 0
    /\ textures = [i \in Slots |-> 0]

-----------------------------------------------------------------------------

\* The game asks for its functions, without a device or with one.
DeviceGetProcAddress(with_device) ==
    /\ installed
    /\ procs' = TRUE
    /\ device' = (device \/ with_device)
    /\ UNCHANGED <<installed, queue, cmd_buf, sys_heap, shell, stages, fonts, swapchain>>

CmdBufInitialize ==
    /\ procs
    /\ cmd_buf' = TRUE
    /\ UNCHANGED <<installed, procs, device, queue, sys_heap, shell, stages, fonts, swapchain>>

\* Mutant: like the device and the queue, the first texture stays.
RememberTexturesOnce(n) ==
    [i \in Slots |-> IF i < n /\ textures[i] = 0 THEN window + 1 ELSE textures[i]]

RememberTextures(n) == [i \in Slots |-> IF i < n THEN window + 1 ELSE textures[i]]

\* The game builds a window, after the old one has shown its last frame; a
\* call without textures is handed on and remembers nothing.
WindowBuilderSetTextures(n) ==
    /\ procs
    /\ window < MaxWindows
    /\ window' = window + 1
    /\ size' = n
    /\ count' = IF n < kMaxSwapchainTextures THEN n ELSE kMaxSwapchainTextures
    /\ textures' = RememberTextures(n)
    /\ UNCHANGED <<objects, sys_heap, shell, stages, fonts>>

SystemHeapReady ==
    /\ sys_heap' = TRUE
    /\ UNCHANGED <<objects, shell, stages, fonts, swapchain>>

\* The system loads the shared font on request, ours or the game's.
SharedFontLoads ==
    /\ base_loaded' = TRUE
    /\ UNCHANGED <<objects, sys_heap, shell, stages, requested, attempted, built, swapchain>>

BetweenFrames ==
    \/ \E with_device \in BOOLEAN : DeviceGetProcAddress(with_device)
    \/ CmdBufInitialize
    \/ \E n \in WindowSizes : WindowBuilderSetTextures(n)
    \/ SystemHeapReady
    \/ SharedFontLoads

-----------------------------------------------------------------------------

\* With the system allocator if the game has one by now, or else with malloc
\* and free, looked up again with every frame until both are found.
CreateContext == ctx' = TRUE \/ (~ctx /\ ~sys_heap /\ ctx' = FALSE)

LoadCppProcsLate == cpp_loaded' = (cpp_loaded \/ backend)   \* mutant: after InitBackend

LoadCppProcsOnce == cpp_loaded' = (cpp_loaded \/ (ctx' /\ ~backend /\ device))

InitBackend == backend' = (backend \/ (ctx' /\ device /\ queue' /\ cmd_buf))

PrepareFontsWithoutDefer ==     \* mutant: does not wait for the shell
    IF built \/ ~backend' \/ attempted THEN UNCHANGED <<requested, attempted, built>>
    ELSE requested' = TRUE /\ attempted' = base_loaded /\ built' = base_loaded

PrepareFontsOneAttempt ==       \* mutant: the attempt that found no font counts
    IF built \/ ~backend' \/ ~shell \/ attempted
    THEN UNCHANGED <<requested, attempted, built>>
    ELSE requested' = TRUE /\ attempted' = TRUE /\ built' = base_loaded

\* Deferred until the shell is up and the shared font loaded; with a font that
\* cannot be used the atlas is built all the same, from ImGui's own.
PrepareFonts ==
    IF built \/ ~backend' \/ ~shell \/ attempted
    THEN UNCHANGED <<requested, attempted, built>>
    ELSE requested' = TRUE /\ attempted' = base_loaded /\ built' = base_loaded

GetSwapchainTextureForBackend(index) == IF index < count THEN textures[index] ELSE 0

Bringup ==
    /\ installed /\ procs
    /\ queue' = TRUE                    \* the wrapper of nvnQueuePresentTexture
    /\ CreateContext
    /\ LoadCppProcsOnce
    /\ InitBackend
    /\ PrepareFonts
    /\ UNCHANGED <<installed, procs, device, cmd_buf, sys_heap, shell, base_loaded,
                   window, size, count, textures>>

-----------------------------------------------------------------------------

(* InitBackend calls through the function table that nvnLoadCPPProcs       *)
(* fills, on the objects that the wrappers have remembered: it never runs  *)
(* before all of them are there, in whatever order the game creates them,  *)
(* and no font atlas is built before it.                                   *)
BackendIsComplete ==
    /\ backend => ctx /\ cpp_loaded /\ device /\ queue /\ cmd_buf
    /\ built => backend

(* Whichever texture the game presents, the overlay draws to that texture  *)
(* of the window on the screen, also after the game has replaced a window  *)
(* by a smaller or larger one; to none past those the hooks remember.      *)
TargetIsCurrent ==
    \A index \in 0..(size - 1) :
        GetSwapchainTextureForBackend(index) =
            IF index < kMaxSwapchainTextures THEN window ELSE 0

(* Once the game has created what the overlay needs, a game that presents  *)
(* on sees it come up: the transient failures, no allocator, no objects,   *)
(* no shell, no font yet, are all retried with the next frame.             *)
OverlayComesUp ==
    (installed /\ procs /\ device /\ cmd_buf /\ shell /\ (ctx \/ sys_heap)) ~> built

=============================================================================
