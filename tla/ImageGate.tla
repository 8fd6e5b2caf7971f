------------------------------ MODULE ImageGate ------------------------------
(***************************************************************************)
(* Which images an upload accepts, by the size their header declares, and  *)
(* the size they are stored in.  An image is a pair <<width, height>>.     *)
(***************************************************************************)
EXTENDS Integers

CONSTANTS
  MaxDimension,   \* maxImageDimension
  MaxPixels       \* maxDecodedPixels

ASSUME GateAssumption == MaxDimension \in Nat \ {0} /\ MaxPixels \in Nat \ {0}

Longer(size)  == IF size[2] > size[1] THEN size[2] ELSE size[1]
Shorter(size) == IF size[2] > size[1] THEN size[1] ELSE size[2]

\* The division, for a product could overflow.
Accepts(size) == size[1] >= 1 /\ size[2] >= 1 /\ size[1] <= MaxPixels \div size[2]

\* int(float64(side) * (float64(MaxDimension) / float64(longer))): the quotient is
\* rounded twice, and what should be a whole number may come out just below it.
Scaled(side, longer) ==
  LET whole == (side * MaxDimension) \div longer IN
  IF (side * MaxDimension) % longer = 0 THEN {whole, whole - 1} ELSE {whole}

\* Variant: the scale is taken from the width also when the image is higher than wide.
Processed_ByWidth(size) ==
  IF size[1] <= MaxDimension /\ size[2] <= MaxDimension THEN {size}
  ELSE Scaled(size[1], size[1]) \X Scaled(size[2], size[1])

\* processImage: the sizes the stored JPEG may have.
Processed(size) ==
  IF size[1] <= MaxDimension /\ size[2] <= MaxDimension THEN {size}
  ELSE Scaled(size[1], Longer(size)) \X Scaled(size[2], Longer(size))

\* What an upload stores is no larger than the limit on each side, comes from an image
\* within the limit on pixels, and lacks a side only if the image was MaxDimension
\* times longer than wide, or more (nothing refuses such a strip: media.go:130).
Fits(source, stored) ==
  /\ source[1] * source[2] <= MaxPixels
  /\ \A i \in 1..2 : stored[i] \in 0..MaxDimension
  /\ 0 \in {stored[1], stored[2]} => Longer(source) >= MaxDimension * Shorter(source)
=============================================================================
