--------------------------- MODULE MCMemoryActor ---------------------------
(* MemoryActor for TLC: two devices, and requests of sizes that fit alone,   *)
(* together or not at all, one for no bytes and one for no device.           *)
EXTENDS MemoryActor, TLC

CONSTANTS d1, d2, d3, r1, r2, r3, r4, r5, r6, r7, r8

MCTarget == (r1 :> d1) @@ (r2 :> d1) @@ (r3 :> d1) @@ (r4 :> d1)
              @@ (r5 :> d2) @@ (r6 :> d2) @@ (r7 :> d2) @@ (r8 :> d3)
MCSize == (r1 :> 1) @@ (r2 :> 2) @@ (r3 :> 4) @@ (r4 :> 0)
            @@ (r5 :> 1) @@ (r6 :> 2) @@ (r7 :> 3) @@ (r8 :> 1)
MCMemory == (d1 :> 4) @@ (d2 :> 2)
=============================================================================
