---------------------------- MODULE MCBleCentral ----------------------------
(* A peer with two services of one characteristic each; the second one has *)
(* a descriptor.                                                           *)
EXTENDS BleCentral, TLC

TwoServices == <<1, 2>>
OneEach == 1 :> <<3>> @@ 2 :> <<4>>
OneDescriptor == 3 :> <<>> @@ 4 :> <<5>>
=============================================================================
