----------------------------- MODULE DoubleBuffer -----------------------------
(***************************************************************************)
(* How decoded frames reach the screen: the decode thread                  *)
(* (depacketize_decode, client/src/decoder/video.rs) converts each frame   *)
(* into the back buffer and swaps it to the front; the UI thread (render,  *)
(* client/src/ui/wgpu_state.rs) uploads the front buffer to the GPU.  The  *)
(* two buffers of client/src/double_buffer.rs have a lock each.            *)
(*                                                                         *)
(* Frames are numbered from 1; 0 is the zeroed buffer that initialize      *)
(* makes.  Torn is a buffer in the middle of a conversion.  A new reader   *)
(* may take the front lock while the decode thread waits for it.           *)
(***************************************************************************)
EXTENDS Integers

CONSTANTS
    NoFrame,                \* None: a buffer before initialize
    Torn,
    MaxFrames,              \* bound: frames decoded
    MaxConversionErrors,    \* bound: failed calls of convert_image
    MaxSurfaceErrors        \* bound: failed calls of get_current_texture

ASSUME BufferAssumption ==
    /\ MaxFrames \in Nat
    /\ MaxConversionErrors \in Nat
    /\ MaxSurfaceErrors \in Nat
    /\ NoFrame \notin Nat
    /\ Torn \notin Nat \cup {NoFrame}

VARIABLES
    back, front,            \* contents of the two buffers
    back_lock, front_lock,  \* "free" or the thread that holds it
    decoder,                \* what the decode thread does next
    decoded,                \* frames taken from the video decoder
    renderer,               \* the UI thread: "idle" or "upload"
    screen,                 \* the frame presented last; 0 before the first
    finished,               \* history: newest frame converted and swapped
    conversion_errors,      \* history: failed calls of convert_image
    surface_errors          \* history: failed calls of get_current_texture

decoderVars == <<decoder, decoded, finished, conversion_errors>>
rendererVars == <<renderer, screen, surface_errors>>
vars == <<back, front, back_lock, front_lock, decoderVars, rendererVars>>

-----------------------------------------------------------------------------
Init ==
    /\ back = NoFrame /\ front = NoFrame
    /\ back_lock = "free" /\ front_lock = "free"
    /\ decoder = "idle"
    /\ decoded = 0
    /\ renderer = "idle"
    /\ screen = 0
    /\ surface_errors = 0
    /\ finished = 0
    /\ conversion_errors = 0

\* Faulty: the buffers are initialized again for every frame.
DecodeFrameInitializes ==
    /\ decoder = "idle"
    /\ decoded < MaxFrames
    /\ back_lock = "free"
    /\ decoded' = decoded + 1
    /\ decoder' = "initialize"
    /\ UNCHANGED <<back, front, back_lock, front_lock, finished,
                   conversion_errors, rendererVars>>

\* A partition head: the buffered packets decode to a frame (lines 110-117).
DecodeFrame ==
    /\ decoder = "idle"
    /\ decoded < MaxFrames
    /\ back_lock = "free"
    /\ decoded' = decoded + 1
    /\ decoder' = IF back = NoFrame THEN "initialize" ELSE "lock_back"
    /\ UNCHANGED <<back, front, back_lock, front_lock, finished,
                   conversion_errors, rendererVars>>

\* initialize: first the back buffer, then the front buffer.
InitializeBack ==
    /\ decoder = "initialize"
    /\ back_lock = "free"
    /\ back' = 0
    /\ decoder' = "initialize_front"
    /\ UNCHANGED <<front, back_lock, front_lock, decoded, finished,
                   conversion_errors, rendererVars>>

InitializeFront ==
    /\ decoder = "initialize_front"
    /\ front_lock = "free"
    /\ front' = 0
    /\ decoder' = "lock_back"
    /\ UNCHANGED <<back, back_lock, front_lock, decoded, finished,
                   conversion_errors, rendererVars>>

\* back().unwrap(): try_write panics the thread when the lock is taken.
LockBack ==
    /\ decoder = "lock_back"
    /\ IF back_lock = "free"
       THEN back_lock' = "decoder" /\ decoder' = "convert"
       ELSE decoder' = "panicked" /\ UNCHANGED back_lock
    /\ UNCHANGED <<back, front, front_lock, decoded, finished,
                   conversion_errors, rendererVars>>

\* convert_image starts to write the buffer, or refuses the frame: that is
\* only logged, and the buffer keeps the frame it had.
Convert ==
    /\ decoder = "convert"
    /\ \/ /\ back' = Torn
          /\ decoder' = "converting"
          /\ UNCHANGED <<back_lock, conversion_errors>>
       \/ /\ conversion_errors < MaxConversionErrors
          /\ conversion_errors' = conversion_errors + 1
          /\ back_lock' = "free"
          /\ decoder' = "swap"
          /\ UNCHANGED back
    /\ UNCHANGED <<front, front_lock, decoded, finished, rendererVars>>

\* The conversion is complete and the guard of the back buffer dropped.
Converted ==
    /\ decoder = "converting"
    /\ back' = decoded
    /\ back_lock' = "free"
    /\ decoder' = "swap"
    /\ UNCHANGED <<front, front_lock, decoded, finished, conversion_errors,
                   rendererVars>>

\* swap: the back lock, then the front lock.
SwapLockBack ==
    /\ decoder = "swap"
    /\ back_lock = "free"
    /\ back_lock' = "decoder"
    /\ decoder' = "swap_front"
    /\ UNCHANGED <<back, front, front_lock, decoded, finished,
                   conversion_errors, rendererVars>>

\* Faulty: swap without the lock of the front buffer.
SwapUnlocked ==
    /\ decoder = "swap_front"
    /\ back' = front /\ front' = back
    /\ back_lock' = "free"
    /\ decoder' = "idle"
    /\ finished' = IF back = decoded THEN decoded ELSE finished
    /\ UNCHANGED <<front_lock, decoded, conversion_errors, rendererVars>>

Swap ==
    /\ decoder = "swap_front"
    /\ front_lock = "free"
    /\ back' = front /\ front' = back
    /\ back_lock' = "free"
    /\ decoder' = "idle"
    /\ finished' = IF back = decoded THEN decoded ELSE finished
    /\ UNCHANGED <<front_lock, decoded, conversion_errors, rendererVars>>

-----------------------------------------------------------------------------
\* Faulty: the back buffer is locked for the upload.
BeginUploadOfBack ==
    /\ renderer = "idle"
    /\ back_lock = "free"
    /\ front # NoFrame
    /\ back_lock' = "renderer"
    /\ renderer' = "upload"
    /\ UNCHANGED <<back, front, front_lock, screen, surface_errors, decoderVars>>

\* render: with a frame in the front buffer, upload it under the read lock;
\* without one the lock is released at once and nothing changes.
BeginUpload ==
    /\ renderer = "idle"
    /\ front_lock = "free"
    /\ front # NoFrame
    /\ front_lock' = "renderer"
    /\ renderer' = "upload"
    /\ UNCHANGED <<back, front, back_lock, screen, surface_errors, decoderVars>>

\* Faulty: the read lock is kept.
EndUploadKeepsLock ==
    /\ renderer = "upload"
    /\ screen' = front
    /\ renderer' = "idle"
    /\ UNCHANGED <<back, front, back_lock, front_lock, surface_errors, decoderVars>>

\* The lock is released and the frame presented.  Without a texture of the
\* surface (wgpu_state.rs:395) it is not, and the screen stays as it is.
EndUpload ==
    /\ renderer = "upload"
    /\ \/ screen' = front /\ UNCHANGED surface_errors
       \/ /\ surface_errors < MaxSurfaceErrors
          /\ surface_errors' = surface_errors + 1
          /\ UNCHANGED screen
    /\ front_lock' = "free"
    /\ renderer' = "idle"
    /\ UNCHANGED <<back, front, back_lock, decoderVars>>

DecoderStep == \/ InitializeBack
               \/ InitializeFront
               \/ LockBack
               \/ Convert
               \/ Converted
               \/ SwapLockBack
               \/ Swap

RendererStep == BeginUpload \/ EndUpload

Next == DecodeFrame \/ DecoderStep \/ RendererStep

Spec == Init /\ [][Next]_vars

-----------------------------------------------------------------------------
Content == 0 .. MaxFrames \cup {NoFrame, Torn}

TypeOK ==
    /\ back \in Content
    /\ front \in Content
    /\ back_lock \in {"free", "decoder"}
    /\ front_lock \in {"free", "renderer"}
    /\ decoder \in {"idle", "initialize", "initialize_front", "lock_back",
                    "convert", "converting", "swap", "swap_front", "panicked"}
    /\ decoded \in 0 .. MaxFrames
    /\ renderer \in {"idle", "upload"}
    /\ screen \in Content
    /\ finished \in 0 .. MaxFrames
    /\ conversion_errors \in 0 .. MaxConversionErrors
    /\ surface_errors \in 0 .. MaxSurfaceErrors

\* The decode thread never finds the back buffer locked (video.rs:131), and the
\* UI never reads a buffer in the middle of a conversion.
BuffersNeverContended ==
    /\ decoder # "panicked"
    /\ front # Torn

\* While the UI uploads the front buffer no one writes or swaps it, although
\* swap takes the two locks one after the other (double_buffer.rs:64-73).
FrontStableDuringUpload == [][renderer = "upload" => front' = front]_vars

Display == INSTANCE FrameRegister
              WITH shown <- screen, failed <- conversion_errors > 0

\* The screen shows what FrameRegister promises, through initialize, failed
\* conversions, lost surfaces and every interleaving of swap and render.  A failed conversion
\* does not keep the frame on the screen: the swap goes on and brings back an
\* older one (video.rs:165, :172); nothing else does.
ImplementsFrameRegister == Display!Spec
=============================================================================
