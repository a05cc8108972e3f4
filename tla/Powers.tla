------------------------------- MODULE Powers -------------------------------
(***************************************************************************)
(* Powers as repeated products, a recursion that can be reasoned about.    *)
(***************************************************************************)
LOCAL INSTANCE Naturals

Power(b, n) ==
  LET power[k \in 0..n] == IF k = 0 THEN 1 ELSE b * power[k - 1]
  IN  power[n]

=============================================================================
