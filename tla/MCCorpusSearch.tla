---------------------------- MODULE MCCorpusSearch ----------------------------
(* Values for model-checking CorpusSearch: every choice of provider, a local      *)
(* server here or elsewhere with two models, and files of up to five passages.  *)
EXTENDS CorpusSearch

Setting(fake, choice, host) ==
    [fake |-> fake, choice |-> choice, configured |-> "m1", keyed |-> TRUE, host |-> host]
Settings ==
    {Setting(FALSE, "auto", "here"), Setting(FALSE, "auto", "elsewhere"), Setting(FALSE, "local", "here"),
     Setting(FALSE, "hosted", "here"), Setting(FALSE, "none", "here"), Setting(TRUE, "auto", "here")}
Servers == {<<>>, <<"m2", "m1">>, <<"m2">>}
Contents == {<<0, 1>>, <<2, 1, 2, 2, 2>>}

SearchRests ==
    /\ deployment = Setting(TRUE, "auto", "here")
    /\ serving = <<>> /\ switches = 0 /\ probed = "stale"
    /\ files = <<>> /\ passages = <<>> /\ asked = NoSearch /\ offered = <<>> /\ said = "" /\ sent = {}
=============================================================================
