------------------------- MODULE MCConsumerPipeline -------------------------
(* Model-checking instance of ConsumerPipeline. *)
EXTENDS ConsumerPipeline

\* The delay ladder, in ticks: a short first rung and a longer last one.
Ladder == <<1, 2>>
=============================================================================
