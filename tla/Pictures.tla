------------------------------ MODULE Pictures ------------------------------
(***************************************************************************)
(* What the pipeline of the source does to the picture of a frame: the     *)
(* decoder copies the NV12 surface of the codec into an I420 buffer, or    *)
(* rotates it when the application follows the switch of the system, and   *)
(* the scale conversion crops, scales and converts it to what the stream   *)
(* wants.  The common build copies the surface as it is and has one call   *)
(* of the ffmpeg library do the rest.                                      *)
(*                                                                         *)
(* A buffer maps offsets to samples; a sample is its plane and where in    *)
(* the frame of the camera it was, so that a wrong offset, stride or plane *)
(* puts the wrong sample in the picture.                                   *)
(***************************************************************************)
EXTENDS Integers

CONSTANTS Sizes,        \* widths and heights of frames and streams, even
          HeightAlign,  \* lines the codec aligns the height of a surface to
          SourceAlign   \* bytes the ffmpeg library aligns a line to

Million == 1000 * 1000
\* IsInRange admits 320 to 4160 columns and 240 to 3120 lines: no crop is empty, and
\* aspects that Crop takes to be the same differ by less than a sample.
ASSUME SizesAssumption ==
  /\ \A n \in Sizes : n \in Nat \ {0} /\ n % 2 = 0
  /\ \A m, n, k \in Sizes : m * n >= k /\ m * n < k * Million
ASSUME AlignAssumption == HeightAlign \in Nat \ {0} /\ SourceAlign \in Nat \ {0}

VARIABLES
  config,   \* the frame, the surface and what the stream wants
  rotate,   \* rotate_ of the decoder node
  stage,    \* how far the frame has come, or "refused" or "undefined"
  picture   \* the buffer that goes to the next node

pictureVars == <<config, rotate, stage, picture>>

Builds == {"main", "common"}
Formats == {"NV21", "RGBA", "P010"}
Angles == {0, 90, 180, 270}

(* GetAlignedHeight.                                                       *)
GetAlignedHeight(h) == ((h + HeightAlign - 1) \div HeightAlign) * HeightAlign

Configs ==
  {c \in [build : Builds, w : Sizes, h : Sizes, stride : {n + pad : n \in Sizes, pad \in {0, 2}},
          lines : Sizes \union {GetAlignedHeight(h) : h \in Sizes},
          dw : Sizes, dh : Sizes, format : Formats, systemSwitch : BOOLEAN, rotation : Angles]
     : /\ c.stride \in {c.w, c.w + 2} /\ c.lines \in {c.h, GetAlignedHeight(c.h)}
       /\ ~c.systemSwitch => c.rotation = 0
       /\ c.build = "common" => ~c.systemSwitch}

----------------------------------------------------------------------------
(* Buffers.                                                                *)
Nowhere == <<"none", 0, 0>>
Black(plane) == <<plane, -1, -1>>
At(data, n) == IF n \in DOMAIN data THEN data[n] ELSE Nowhere
Half(n) == n \div 2
Chroma == <<"U", "V">>

(* An I420 buffer of w * h * 3 / 2 bytes: three planes without gaps, given *)
(* as functions of column and line, and of plane, column and line.         *)
Pixels(w, h) == (0..(w - 1)) \X (0..(h - 1))
ChromaPixels(w, h) == (1..2) \X (0..(Half(w) - 1)) \X (0..(Half(h) - 1))
I420(w, h, luma, chroma) ==
  LET uv == Half(w) * Half(h)
      Sample(n) == IF n < w * h THEN luma[<<n % w, n \div w>>]
                   ELSE IF n < w * h + 2 * uv
                        THEN chroma[<<1 + (n - w * h) \div uv, ((n - w * h) % uv) % Half(w), ((n - w * h) % uv) \div Half(w)>>]
                        ELSE Nowhere
  IN [w |-> w, h |-> h, data |-> [n \in 0..(Half(w * h * 3) - 1) |-> Sample(n)]]
Luma(i, x, y) == At(i.data, y * i.w + x)
ChromaAt(i, k, x, y) == At(i.data, i.w * i.h + (k - 1) * Half(i.w) * Half(i.h) + y * Half(i.w) + x)

(* The surface of the codec: NV12 with padded lines and padded height.     *)
SurfaceHeight(c) == GetAlignedHeight(c.h)
Surface(c) ==
  LET y == c.stride * SurfaceHeight(c)
      Sample(n) ==
        LET m == IF n < y THEN n ELSE n - y
            col == m % c.stride
            row == m \div c.stride
        IN IF n < y THEN IF col < c.w /\ row < c.h THEN <<"Y", col, row>> ELSE Nowhere
           ELSE IF col < c.w /\ row < Half(c.h) THEN <<Chroma[1 + (col % 2)], Half(col), row>> ELSE Nowhere
  IN [n \in 0..(Half(y * 3) - 1) |-> Sample(n)]

(* IsCorrectSurfaceBuffer: the codec may have allocated fewer lines.       *)
IsCorrectSurfaceBuffer(c) ==
  LET aligned == Half(c.stride * SurfaceHeight(c) * 3)
  IN aligned <= Half(c.stride * c.lines * 3) /\ aligned >= Half(c.w * c.h * 3)

----------------------------------------------------------------------------
(* The decoder node.                                                       *)

(* NV12ToI420 and NV12ToI420Rotate of the libyuv library: the angle is     *)
(* clockwise.                                                              *)
Turned(angle, w, h, x, y) ==
  CASE angle = 0 -> <<x, y>>
    [] angle = 90 -> <<y, h - 1 - x>>
    [] angle = 180 -> <<w - 1 - x, h - 1 - y>>
    [] angle = 270 -> <<w - 1 - y, x>>
NV12ToI420Rotate(c, angle) ==
  LET s == Surface(c)
      Y(p) == At(s, p[2] * c.stride + p[1])
      UV(k, p) == At(s, c.stride * SurfaceHeight(c) + p[2] * c.stride + 2 * p[1] + k - 1)
      across == angle \in {90, 270}
      w == IF across THEN c.h ELSE c.w
      h == IF across THEN c.w ELSE c.h
  IN I420(w, h,
          [p \in Pixels(w, h) |-> Y(Turned(angle, c.w, c.h, p[1], p[2]))],
          [p \in ChromaPixels(w, h) |-> UV(p[1], Turned(angle, Half(c.w), Half(c.h), p[2], p[3]))])

(* I420CopyBySystemSwitch: the square in the middle of the rotated picture *)
(* goes to the middle of a black one that has the size of the frame.       *)
Least(a, b) == IF a < b THEN a ELSE b
Even(n) == 2 * Half(n)
(* Slip: the place is not made even.                                       *)
CentreUnmasked(n, side) == Half(n - side)
Centre(n, side) == Even(Half(n - side))
I420CopyBySystemSwitch(c, rotated) ==
  LET side == Least(c.w, c.h)
      cropX == Centre(rotated.w, side)
      cropY == Centre(rotated.h, side)
      pasteX == Centre(c.w, side)
      pasteY == Centre(c.h, side)
      Inside(x, y, px, py, n) == x \in px..(px + n - 1) /\ y \in py..(py + n - 1)
  IN I420(c.w, c.h,
          [p \in Pixels(c.w, c.h) |->
            IF Inside(p[1], p[2], pasteX, pasteY, side)
            THEN Luma(rotated, p[1] - pasteX + cropX, p[2] - pasteY + cropY) ELSE Black("Y")],
          [p \in ChromaPixels(c.w, c.h) |->
            IF Inside(p[2], p[3], Half(pasteX), Half(pasteY), Half(side))
            THEN ChromaAt(rotated, p[1], p[2] - Half(pasteX) + Half(cropX), p[3] - Half(pasteY) + Half(cropY))
            ELSE Black(Chroma[p[1]])])
UniversalRotateCropAndPadNv12ToI420(c, angle) ==
  LET rotated == NV12ToI420Rotate(c, angle)
  IN IF rotated.w = c.w /\ rotated.h = c.h THEN rotated ELSE I420CopyBySystemSwitch(c, rotated)
ConvertToI420(c) == NV12ToI420Rotate(c, 0)

(* The common build copies the first bytes of the surface.                 *)
CopySurface(c) ==
  [w |-> c.w, h |-> c.h, data |-> [n \in 0..(Half(c.w * c.h * 3) - 1) |-> At(Surface(c), n)]]

----------------------------------------------------------------------------
(* The scale conversion.                                                   *)

(* Crop and CropConvert: the largest part in the middle that has the       *)
(* aspect of the stream, unless the two are within 1e-6 of each other.     *)
Abs(n) == IF n < 0 THEN -n ELSE n
SameAspect(c, i) == Abs(i.w * c.dh - i.h * c.dw) * Million < i.h * c.dh
CropWidth(c, i) == IF i.w * c.dh > i.h * c.dw THEN (i.h * c.dw) \div c.dh ELSE i.w
CropHeight(c, i) == IF i.w * c.dh > i.h * c.dw THEN i.h ELSE (i.w * c.dh) \div c.dw
Crop(c, i) ==
  IF SameAspect(c, i) THEN i
  ELSE LET cw == CropWidth(c, i)
           ch == CropHeight(c, i)
           offsetX == Half(i.w - cw)
           offsetY == Half(i.h - ch)
       IN I420(cw, ch,
               [p \in Pixels(cw, ch) |-> Luma(i, offsetX + p[1], offsetY + p[2])],
               [p \in ChromaPixels(cw, ch) |-> ChromaAt(i, p[1], Half(offsetX) + p[2], Half(offsetY) + p[3])])

(* I420Scale of the libyuv library, without a filter: the sample at the    *)
(* middle of each target sample; it takes odd sizes to have one more       *)
(* column and line of chroma than the buffers of this code have.           *)
Nearest(n, to, from) == ((2 * n + 1) * from) \div (2 * to)
HalfUp(n) == (n + 1) \div 2
I420Scale(i, w, h) ==
  I420(w, h,
       [p \in Pixels(w, h) |-> Luma(i, Nearest(p[1], w, i.w), Nearest(p[2], h, i.h))],
       [p \in ChromaPixels(w, h) |->
         ChromaAt(i, p[1], Nearest(p[2], HalfUp(w), HalfUp(i.w)), Nearest(p[3], HalfUp(h), HalfUp(i.h)))])
ConvertResolution(c, i) == IF i.w = c.dw /\ i.h = c.dh THEN i ELSE I420Scale(i, c.dw, c.dh)

(* The formats a stream may want, as a luma and two chroma samples for     *)
(* each pixel; NV21 and P010 keep the chroma once for four pixels.         *)
(* ConvertFormatToP010 exchanges the two planes before it has the library  *)
(* make P010LE, which begins with U, of them.                              *)
Planes(c) == IF c.build = "main" /\ c.format = "P010" THEN <<2, 1>> ELSE <<1, 2>>
ConvertFormat(c, i) ==
  [w |-> i.w, h |-> i.h,
   data |-> [p \in Pixels(i.w, i.h) |->
     <<Luma(i, p[1], p[2]), ChromaAt(i, Planes(c)[1], Half(p[1]), Half(p[2])),
       ChromaAt(i, Planes(c)[2], Half(p[1]), Half(p[2]))>>]]

(* ConvertFormatToP010 has a context for the size of the frame, and reads  *)
(* the buffer from before the scaling with the size from after it.         *)
P010Fits(c) == c.w = c.dw /\ c.h = c.dh

(* ScaleConvert of the common build: the bytes go to a buffer whose lines  *)
(* are aligned, and the library scales and converts what is there.         *)
AlignedLine(w) == ((w + SourceAlign - 1) \div SourceAlign) * SourceAlign
SwsScale(c, i) ==
  LET line == AlignedLine(c.w)
      Y(n) == IF n < c.w * c.h THEN At(i.data, n) ELSE Nowhere
      UV(n) == IF n < Half(c.w * c.h) THEN At(i.data, c.w * c.h + n) ELSE Nowhere
      Place(p) == <<Nearest(p[1], c.dw, c.w), Nearest(p[2], c.dh, c.h)>>
      At3(q) == <<Y(q[2] * line + q[1]), UV(Half(q[2]) * line + 2 * Half(q[1])), UV(Half(q[2]) * line + 2 * Half(q[1]) + 1)>>
  IN [w |-> c.dw, h |-> c.dh, data |-> [p \in Pixels(c.dw, c.dh) |-> At3(Place(p))]]

----------------------------------------------------------------------------
Empty == [w |-> 0, h |-> 0, data |-> <<>>]
PictureInit ==
  /\ config \in Configs
  /\ rotate = IF config.rotation > 0 THEN 360 - config.rotation ELSE 0
  /\ stage = "surface" /\ picture = Empty

PictureIdle == config = [build |-> "none"] /\ rotate = 0 /\ stage = "idle" /\ picture = Empty

(* The orientation of the screen changes; it and that of the camera come   *)
(* with the settings.                                                      *)
UpdateRotation ==
  /\ stage = "surface" /\ config.systemSwitch
  /\ \E camera \in Angles, screen \in Angles :
       rotate' = IF camera = 90 /\ screen \notin {0, 180} THEN (screen - camera + 180) % 360
                 ELSE (screen - camera + 360) % 360
  /\ UNCHANGED <<config, stage, picture>>

DecodedImage(c, angle) ==
  IF c.build = "common" THEN CopySurface(c)
  ELSE IF c.systemSwitch THEN UniversalRotateCropAndPadNv12ToI420(c, angle) ELSE ConvertToI420(c)
CopyDecodedImage ==
  /\ stage = "surface"
  /\ IF IsCorrectSurfaceBuffer(config) THEN stage' = "decoded" /\ picture' = DecodedImage(config, rotate)
     ELSE stage' = "refused" /\ UNCHANGED picture
  /\ UNCHANGED <<config, rotate>>

(* ProcessData of the scale conversion; the formats always differ.         *)
ConvertedImage(c, i) ==
  IF c.build = "common" THEN SwsScale(c, i)
  ELSE ConvertFormat(c, ConvertResolution(c, IF c.systemSwitch THEN Crop(c, i) ELSE i))
ProcessData ==
  /\ stage = "decoded"
  /\ IF config.build = "main" /\ config.format = "P010" /\ ~P010Fits(config)
     THEN stage' = "undefined" /\ UNCHANGED picture
     ELSE stage' = "done" /\ picture' = ConvertedImage(config, picture)
  /\ UNCHANGED <<config, rotate>>

PictureNext == UpdateRotation \/ CopyDecodedImage \/ ProcessData
PictureSpec == PictureInit /\ [][PictureNext]_pictureVars

----------------------------------------------------------------------------
(* The common build shows the frame only when neither the surface nor the  *)
(* lines of the library are padded.                                        *)
Unpadded == config.stride = config.w /\ SurfaceHeight(config) = config.h /\ AlignedLine(config.w) = config.w
Shown == stage = "done" /\ (config.build = "common" => Unpadded)

Across == rotate \in {90, 270} /\ config.w # config.h

(* Where a pixel of the stream is in the frame, from the middle, in halves *)
(* of a sample of the frame and multiplied by the common denominator: the  *)
(* whole frame, or, on the switch of the system, its largest part of the   *)
(* right aspect, turned.                                                   *)
Broader == config.w * config.dh > config.h * config.dw
ScaleX == IF config.systemSwitch /\ Broader THEN config.h * config.dw ELSE config.w * config.dh
ScaleY == IF config.systemSwitch /\ ~Broader THEN config.w * config.dh ELSE config.h * config.dw
Denominator == config.dw * config.dh
FromMiddle(p) == <<(2 * p[1] + 1 - config.dw) * ScaleX, (2 * p[2] + 1 - config.dh) * ScaleY>>
Turn(angle, v) == CASE angle = 0 -> v
                    [] angle = 90 -> <<v[2], -v[1]>>
                    [] angle = 180 -> <<-v[1], -v[2]>>
                    [] angle = 270 -> <<-v[2], v[1]>>
(* How far from its place a sample may be, in halves of a sample of the    *)
(* frame: the crop and the scaling round, and a picture that was turned on *)
(* its side lies at an even column and line.                               *)
Slack == IF Across THEN 5 ELSE 3
Near(a, b) == Abs(a - b) < Slack * Denominator

(* The stream shows the frame: each pixel the part of it that belongs      *)
(* there, upright, centred and with its proportions, through the strides   *)
(* of the surface, the rotation, the crop and the scaling; and black only  *)
(* beside the square of a picture that was turned on its side.             *)
InsideOfSquare(v) == \A n \in 1..2 : Abs(v[n]) <= (Least(config.w, config.h) - 4) * Denominator
PictureShowsFrame ==
  Shown =>
    /\ picture.w = config.dw /\ picture.h = config.dh
    /\ \A p \in DOMAIN picture.data :
         LET s == picture.data[p][1]
             v == Turn(rotate, FromMiddle(p))
         IN IF s = Black("Y") THEN Across /\ ~InsideOfSquare(v)
            ELSE /\ s[1] = "Y"
                 /\ Near((2 * s[2] + 1 - config.w) * Denominator, v[1])
                 /\ Near((2 * s[3] + 1 - config.h) * Denominator, v[2])

(* The colour of a pixel comes from where its brightness comes from, and   *)
(* U and V are in their order, but for a P010 stream of the main build,    *)
(* which gets V for U and U for V: black has no colour, and the planes are *)
(* not shifted against each other by the crop, the paste or the scaling.   *)
(* Not so for a crop with an odd side, whose chroma has a column or a line *)
(* less than the library takes it to have; and the colour reaches a pixel  *)
(* into the black if a crop starts at an odd column or line.               *)
Plane(k) == IF config.build = "main" /\ config.format = "P010" THEN Chroma[3 - k] ELSE Chroma[k]
CutsX == config.w - CropWidth(config, config)
CutsY == config.h - CropHeight(config, config)
OddCrop == config.systemSwitch /\ (CutsX % 2 = 1 \/ CutsY % 2 = 1)
OddStart == config.systemSwitch /\ (Half(CutsX) % 2 = 1 \/ Half(CutsY) % 2 = 1)
ColourFollowsBrightness ==
  Shown /\ ~OddCrop =>
    \A p \in DOMAIN picture.data : \A k \in 1..2 :
      LET s == picture.data[p][1]
          c == picture.data[p][k + 1]
      IN /\ c[1] = Plane(k)
         /\ ~OddStart => (s = Black("Y") <=> c = Black(Plane(k)))
         /\ s # Black("Y") /\ c # Black(Plane(k)) => Abs(2 * c[2] - s[2]) <= 3 /\ Abs(2 * c[3] - s[3]) <= 3

(* Together: the picture an application sees is the frame of the camera,   *)
(* turned, cropped and scaled as its stream wants, in brightness and       *)
(* colour.                                                                 *)
PicturesAreRight == PictureShowsFrame /\ ColourFollowsBrightness
=============================================================================
