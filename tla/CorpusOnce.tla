----------------------------- MODULE CorpusOnce -----------------------------
(***************************************************************************)
(* What bootstrap promises: the corpus is empty until one whole corpus is  *)
(* loaded, and from then on it is that corpus.                             *)
(***************************************************************************)
CONSTANT Corpora        (* the sets of recipe rows an image stands for     *)
VARIABLE corpus

Init == corpus = {}
Load == corpus = {} /\ corpus' # {} /\ corpus' \in Corpora
Spec == Init /\ [][Load]_corpus
=============================================================================
