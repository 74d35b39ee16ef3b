---------------------------- MODULE MCTaskEvidence ----------------------------
(* Values for model-checking TaskEvidence: a page under two spellings, one      *)
(* that redirects to it, one that redirects inside, a results page and two      *)
(* passages of a corpus of which a run may read one.                          *)
EXTENDS TaskEvidence

Places == {"page", "page/", "other", "inside", "results", "chosen", "unchosen"}
PageOfPlace == [u \in Places |-> IF u = "page/" THEN "page" ELSE u]
KindOfPlace == [u \in Places |->
    CASE u \in {"chosen", "unchosen"} -> "corpus"
      [] u = "results" -> "engine"
      [] u = "other" -> "moved"
      [] u = "inside" -> "private"
      [] OTHER -> "web"]
BodyOfPlace == [u \in Places |->
    CASE u \in {"page", "page/"} -> <<"a", "b">>
      [] u = "results" -> <<"d">>
      [] u = "inside" -> <<"d">>
      [] u = "chosen" -> <<"c">>
      [] u = "unchosen" -> <<"d">>
      [] OTHER -> <<>>]
Redirects == [u \in {"other"} |-> "page"]
Hit(url, text) == [url |-> url, text |-> text]
SomeWebHits == {<<Hit("page", <<"b">>), Hit("other", <<"c">>)>>}
SomeCorpusHits == <<Hit("chosen", <<"c">>)>>
Chosen == {"chosen"}
Snippets == {<<>>, <<"a">>, <<"b">>, <<"c">>, <<"d">>, <<"a", "b", "c">>, <<"b", "c">>}

TaskRests ==
    /\ fromCorpus = FALSE /\ step = "turns" /\ rounds = 0 /\ pages = {} /\ record = <<>>
    /\ grade = [u \in Addresses |-> "none"] /\ shelf = <<>> /\ items = <<>> /\ returned = {}
=============================================================================
