------------------------------ MODULE MCOptions ------------------------------
(* Instances of Options for TLC.                                              *)
EXTENDS Options

Add(o, v) == Patch(o, "add", v, NoRef, Unsaid)
Del(o) == Patch(o, "del", Default[o], NoRef, Unsaid)
Test == Patch("TEST", "add", 0, NoRef, Unsaid)
ReloadArg == Patch("RELOAD", "add", 0, NoRef, Unsaid)

Small == [down |-> 1024, up |-> 256]

MCScenes == {"classes", "devices"}
MCEntries ==
  [classes |-> <<Add("RT", 3), Add("RT", 4), Del("RT"), Add("GW", Small), Del("GW"),
                 Add("PEDANTIC", 1), Add("PORT", 1), Test, ReloadArg>>,
   devices |-> <<Entry("b", "add", Unsaid), Entry("b", "add", "short"), Entry("b", "add", Reset),
                 Entry(Ref, "add", Unsaid), Add("PEDANTIC", 1),
                 Entry("a", "del", Unsaid), Entry("b", "del", Unsaid), Entry(Ref, "del", Unsaid)>>]

MCStartups == <<<<>>, <<Add("PORT", 1), Add("RT", 3)>>, <<Entry("b", "add", Unsaid)>>>>
MCSpeeds == {NoSpeed, Small}

=============================================================================
