------------------------- MODULE MCFirmwareSupport -------------------------
(* An instance of FirmwareSupport for TLC.                                  *)
EXTENDS FirmwareSupport

MCArguments == Words(W)
\* around the powers of two, all ones, and numbers without a pattern
MCDoubleArguments ==
  {0, 1, 2, 3, 5, 7, 8, 11, 15, 16, 17, 24, 31, 32, 48, 53, 64, 85, 96, 127, 128, 129,
   160, 170, 192, 201, 240, 241, 254, 255}
MCUndefined == {0, 2^W - 1}

MCBaseWord == <<0, 1, 0, 0>>
Access == [op : Loads \union Stores \union {"other"}, base : {4, 29}, rt : {0, 2, 4, 25, 29},
           offset : {0, 1, 2, 3, 4, 65532, 65535}, delay_slot : BOOLEAN]
MCInstructions ==
  {i \in Access : i.op \in {"LH", "LHU", "SH"} => i.offset % 2 = 0}
MCInterruptible ==
  {i \in MCInstructions : i.rt = 25 /\ i.offset = 0 /\ ~i.delay_slot}
MCInterruptCodes == {32, 16, 8, 4, 2, 1, 48, 0}

MCMemories ==
  {(256 :> w) @@ (252 :> <<w[2], w[1], w[4], w[3]>>) :
     w \in {<<5, 0, 0, 0>>, <<0, 0, 0, 9>>, <<1, 129, 0, 0>>, <<64, 128, 127, 255>>, <<0, 0, 0, 0>>}}
MCFrameWords == {<<0, 1, 0, 0>>, <<7, 7, 0, 0>>}
=============================================================================
