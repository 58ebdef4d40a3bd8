---------------------------- MODULE FramePipeline ----------------------------
(* One frame of the agent, from the capture to the text that is sent:         *)
(* CaptureManager::CapturePixelsInternal (Agent/src/CaptureManager.cpp:27-173)*)
(* with every failure of the Windows calls in it, CompressToJpeg and          *)
(* EncodeToBase64 (ImageProcessor.cpp:57-97), and the loop that calls them    *)
(* (main.cpp:205-231).  The IO thread may clear selected_hwnd at any time     *)
(* (main.cpp:115-118).  Pixels are counted, not kept; a JPEG is one of Jpegs. *)
EXTENDS Base64

CONSTANTS Sizes,    \* the widths and heights Windows may report, <<w, h>>
          Jpegs,    \* what the compressor may produce
          Window,   \* the window the user may pick
          NULL      \* no window: the full screen

ASSUME PipelineAssumption ==
    /\ Sizes \subseteq Nat \X Nat
    /\ Jpegs \subseteq Seq(Byte) \ {<< >>}
    /\ Window # NULL

VARIABLES step,       \* where main is
          hwnd,       \* selected_hwnd, shared with the IO thread
          target,     \* the hwnd argument of CapturePixelsInternal
          size,       \* outWidth, outHeight
          held,       \* the handles this capture has and must give back, and
                      \* "refused" if Windows may still have a deleted bitmap
          pixels,     \* the size of the pixel buffer; 0 when it is empty
          shown,      \* what was drawn on the bitmap: "none" yet, the full
                      \* "screen", the "window", or the "area" of the screen
                      \* where the window is or was
          buffer,     \* libjpeg-turbo's output buffer is allocated
          compressor, \* s_jpegCompressor is not null
          closed,     \* the user has closed the window
          exposures   \* history: areas drawn of a window that was closed

captureVars == <<target, size, held, pixels, shown>>
windowVars == <<closed, exposures>>
pipelineVars == <<step, hwnd, captureVars, buffer, compressor, windowVars>>
vars == <<pipelineVars, encodeVars>>

Width == size[1]
Height == size[2]

(* Line 152: rows of three bytes a pixel, rounded up to four bytes. *)
UnpaddedPitch(w) == w * 3  \* Faulty: rows are not rounded up.
RowPitch(w) == ((w * 3 + 3) \div 4) * 4

(* ImageProcessor.cpp:73: the pitch the compressor is told. *)
CompressorPitch(w) == w * 3

Init ==
    /\ EncodeInit
    /\ step = "start" /\ compressor = FALSE
    /\ hwnd = NULL /\ target = NULL
    /\ size = <<0, 0>> /\ pixels = 0
    /\ held = {} /\ shown = "none" /\ buffer = FALSE
    /\ closed = FALSE /\ exposures = 0

(* main.cpp:64-69, ImageProcessor.cpp:39-48 *)
InitializeCompressor ==
    /\ step = "start"
    /\ \E made \in BOOLEAN : compressor' = made /\ step' = IF made THEN "waiting" ELSE "end"
    /\ UNCHANGED <<hwnd, captureVars, buffer, windowVars, encodeVars>>

(* main.cpp:126-130, 140-144: connect threw or nobody answered. *)
GiveUp ==
    /\ step = "waiting"
    /\ compressor' = FALSE
    /\ step' = "end"
    /\ UNCHANGED <<hwnd, captureVars, buffer, windowVars, encodeVars>>

(* main.cpp:146-147 *)
Select ==
    /\ step = "waiting"
    /\ hwnd' \in {NULL, Window}
    /\ step' = "head"
    /\ UNCHANGED <<captureVars, buffer, compressor, windowVars, encodeVars>>

(* main.cpp:115-118, on the IO thread. *)
ToggleFullscreen ==
    /\ step \notin {"start", "end"}
    /\ hwnd' = NULL
    /\ UNCHANGED <<step, captureVars, buffer, compressor, windowVars, encodeVars>>

(* The user, or its program, closes the window.  (That Windows may give its *)
(* handle to another window afterwards is left out.)                        *)
CloseWindow ==
    /\ ~closed /\ closed' = TRUE
    /\ UNCHANGED <<step, hwnd, captureVars, buffer, compressor, exposures, encodeVars>>

(* main.cpp:207-208: the test of selected_hwnd.  The vectors of the last    *)
(* round are gone, and so are its sizes.                                    *)
TestSelection ==
    /\ step = "head"
    /\ target' = NULL
    /\ size' = <<0, 0>> /\ pixels' = 0 /\ shown' = "none"
    /\ step' = IF hwnd = NULL THEN "open" ELSE "reread"
    /\ UNCHANGED <<hwnd, held, buffer, compressor, windowVars, encodeVars>>

(* main.cpp:210 reads it again; CaptureWindow of NULL is CaptureFullScreen   *)
(* (CaptureManager.cpp:19-25).                                               *)
ReadSelection ==
    /\ step = "reread"
    /\ target' = hwnd
    /\ step' = "open"
    /\ UNCHANGED <<hwnd, size, held, pixels, shown, buffer, compressor, windowVars, encodeVars>>

(* An early return, after the releases of its own list: the vector stays    *)
(* empty, and the loop goes round (main.cpp:212).                           *)
Handles == {"screen", "memory", "bitmap"}
Abandon(released) ==
    /\ held' = held \ released
    /\ step' = "head"
    /\ UNCHANGED <<hwnd, target, size, pixels, shown, buffer, compressor, windowVars, encodeVars>>

(* Lines 35-39 *)
GetDC ==
    /\ step = "open"
    /\ held' = held \cup {"screen"}
    /\ step' = "measure"
    /\ UNCHANGED <<hwnd, target, size, pixels, shown, buffer, compressor, windowVars, encodeVars>>
GetDCFails == step = "open" /\ Abandon({})

(* Lines 45-93: the virtual screen, or the primary one if that has no size; *)
(* the window's rectangle, or its client area.  Either may be empty, and a  *)
(* window that is closed has neither.                                       *)
Measure ==
    /\ step = "measure" /\ (target = NULL \/ ~closed)
    /\ size' \in Sizes
    /\ step' = "memory"
    /\ UNCHANGED <<hwnd, target, held, pixels, shown, buffer, compressor, windowVars, encodeVars>>

(* Lines 61-65: the window is gone. *)
WindowOrScreen ==  \* Faulty: the screen is captured instead.
    \/ Abandon({"screen"})
    \/ /\ target' = NULL /\ step' = "memory" /\ size' \in Sizes
       /\ UNCHANGED <<hwnd, held, pixels, shown, buffer, compressor, windowVars, encodeVars>>
WindowOnly == Abandon({"screen"})
GetClientRectFails == step = "measure" /\ target # NULL /\ WindowOnly

(* Lines 103-108 *)
CreateCompatibleDC ==
    /\ step = "memory"
    /\ held' = held \cup {"memory"}
    /\ step' = "bitmap"
    /\ UNCHANGED <<hwnd, target, size, pixels, shown, buffer, compressor, windowVars, encodeVars>>
CreateCompatibleDCFails == step = "memory" /\ Abandon({"screen"})

(* Lines 110-118 *)
CreateCompatibleBitmap ==
    /\ step = "bitmap"
    /\ held' = held \cup {"bitmap"}
    /\ step' = "draw"
    /\ UNCHANGED <<hwnd, target, size, pixels, shown, buffer, compressor, windowVars, encodeVars>>
BitmapFailsScreenKept == step = "bitmap" /\ Abandon({"memory"})  \* Faulty: no ReleaseDC.
CreateCompatibleBitmapFails == step = "bitmap" /\ Abandon({"memory", "screen"})

(* Lines 120-134: StretchBlt of the screen, or PrintWindow; if that fails,  *)
(* and for a closed window it does, BitBlt of the screen at the rectangle   *)
(* that was measured.  Nobody looks at the result of either blit.           *)
DrawScreen == target = NULL /\ shown' = "screen" /\ UNCHANGED exposures
DrawWindow == target # NULL /\ ~closed /\ shown' = "window" /\ UNCHANGED exposures
DrawArea ==
    /\ target # NULL
    /\ shown' = "area"
    /\ exposures' = IF closed THEN exposures + 1 ELSE exposures
Draw ==
    /\ step = "draw"
    /\ DrawScreen \/ DrawWindow \/ DrawArea
    /\ step' = "read"
    /\ UNCHANGED <<hwnd, target, size, held, pixels, buffer, compressor, closed, encodeVars>>

(* Lines 150-159 *)
GetDIBits ==
    /\ step = "read"
    /\ pixels' \in {RowPitch(Width) * Height, 0}
    /\ step' = "release"
    /\ UNCHANGED <<hwnd, target, size, held, shown, buffer, compressor, windowVars, encodeVars>>

(* Lines 161-170: the bitmap is deleted while it is selected, which Windows  *)
(* may refuse.  Then the guards of main.cpp:212 and ImageProcessor.cpp:59-66.*)
EmptyPicture == pixels = 0 \/ Width = 0 \/ Height = 0
ReleaseAll ==
    /\ step = "release"
    /\ \E deletion \in {{}, {"refused"}} : held' = (held \ {"bitmap", "memory", "screen"}) \cup deletion
    /\ step' = IF EmptyPicture \/ ~compressor THEN "head" ELSE "compress"
    /\ UNCHANGED <<hwnd, target, size, pixels, shown, buffer, compressor, windowVars, encodeVars>>

(* tjCompress2 (ImageProcessor.cpp:67-81): it may have allocated its buffer  *)
(* before it fails.                                                          *)
Compress ==
    /\ step = "compress"
    /\ \/ buffer' = TRUE /\ step' = "compressed"
       \/ buffer' \in BOOLEAN /\ step' = "failed"
    /\ UNCHANGED <<hwnd, captureVars, compressor, windowVars, encodeVars>>

(* Lines 82-89 *)
CompressFails ==
    /\ step = "failed"
    /\ buffer' = FALSE
    /\ step' = "head"
    /\ UNCHANGED <<hwnd, captureVars, compressor, windowVars, encodeVars>>

(* Lines 90-97 and main.cpp:216: copied, freed and handed to the encoder. *)
Encode ==
    /\ step = "compressed"
    /\ \E jpeg \in Jpegs : Begin(jpeg)
    /\ buffer' = FALSE
    /\ step' = "encode"
    /\ UNCHANGED <<hwnd, captureVars, compressor, windowVars>>

Encoding ==
    /\ step = "encode"
    /\ TakeByte \/ Finish
    /\ UNCHANGED pipelineVars

(* main.cpp:217-223: the message is built and handed to the client. *)
Send ==
    /\ step = "encode" /\ ~coding
    /\ step' = "head"
    /\ UNCHANGED <<hwnd, captureVars, buffer, compressor, windowVars, encodeVars>>

Next ==
    \/ InitializeCompressor \/ GiveUp \/ Select \/ ToggleFullscreen
    \/ CloseWindow \/ TestSelection \/ ReadSelection
    \/ GetDC \/ GetDCFails \/ Measure \/ GetClientRectFails
    \/ CreateCompatibleDC \/ CreateCompatibleDCFails
    \/ CreateCompatibleBitmap \/ CreateCompatibleBitmapFails
    \/ Draw \/ GetDIBits \/ ReleaseAll
    \/ Compress \/ CompressFails \/ Encode \/ Encoding \/ Send

Spec == Init /\ [][Next]_vars

-----------------------------------------------------------------------------
Steps == {"start", "waiting", "head", "reread", "open", "measure", "memory", "bitmap",
          "draw", "read", "release", "compress", "compressed", "failed", "encode", "end"}

(* Types, and the range of the encoder's registers: val stays an int, and   *)
(* at the head of the loop valb is -6, -4 or -2 (ImageProcessor.cpp:15-23).  *)
TypeOK ==
    /\ step \in Steps
    /\ hwnd \in {NULL, Window} /\ target \in {NULL, Window}
    /\ size \in Nat \X Nat /\ pixels \in Nat
    /\ held \subseteq Handles \cup {"refused"}
    /\ shown \in {"none", "screen", "window", "area"}
    /\ closed \in BOOLEAN /\ exposures \in Nat
    /\ buffer \in BOOLEAN /\ compressor \in BOOLEAN /\ coding \in BOOLEAN
    /\ data \in Seq(Byte) /\ pos \in 0 .. Len(data)
    /\ val \in Int32 /\ valb \in {-6, -4, -2}
    /\ out \in Seq(0 .. Pad)

(* However a capture ends, by any of its returns, it holds no handle and no *)
(* output buffer when the loop goes round, and a main that returns has      *)
(* destroyed the compressor (CaptureManager.cpp:35-170,                     *)
(* ImageProcessor.cpp:82-91, main.cpp:128, 142).                            *)
NothingHeld ==
    /\ step \in {"head", "reread", "open", "end"} => held \cap Handles = {} /\ ~buffer
    /\ step = "end" => ~compressor

(* Windows pads the rows of a 24-bit DIB to whole 32-bit words. *)
Stride(w) == ((w * 24 + 31) \div 32) * 4

(* GetDIBits writes, and tjCompress2 reads, inside the buffer, whatever the *)
(* size; and where a row needs no padding each reads the other's rows       *)
(* (CaptureManager.cpp:151-156, ImageProcessor.cpp:70-75).                  *)
BufferLayout ==
    /\ pixels > 0 => Stride(Width) * Height <= pixels
    /\ step = "compress" =>
         /\ (Height - 1) * CompressorPitch(Width) + 3 * Width <= pixels
         /\ Width % 4 = 0 => CompressorPitch(Width) = Stride(Width)

(* The full screen is drawn only once it is selected, even if the window is *)
(* closed, or swapped for it between the two reads of selected_hwnd; and of *)
(* a window that was closed, at most one picture more is drawn: the area of *)
(* the screen it covered, if PrintWindow fails after GetClientRect succeeded *)
(* (main.cpp:208-210, CaptureManager.cpp:19-134).  A PrintWindow that fails *)
(* for an open window shows that area too, with whatever lies over it.      *)
OnlyWhatIsSelected ==
    /\ shown = "screen" => hwnd = NULL
    /\ exposures <= 1
=============================================================================
