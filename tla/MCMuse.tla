-------------------------------- MODULE MCMuse --------------------------------
(* Instances of Muse for TLC. *)
EXTENDS Muse, TLC

Alta(forma, n) == [forma |-> forma, n |-> n]

(* A new segment of more than a page may call the clock before it is listed, and an *)
(* extension of Marcos + 2 leaves a slot unmarked: both are told in README.md.    *)
AltasDeUno ==
  {Alta("segmento", 1), Alta("rearmado", 1), Alta("extension", 1), Alta("extension", 2)}

=============================================================================
