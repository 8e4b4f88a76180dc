----------------------------- MODULE MCPublisher -----------------------------
(* Small instances of Publisher for TLC. *)
EXTENDS Publisher

AllBundles == {"exact", "corrupt", "otherHeads"}
ExactBundle == {"exact"}

\* What the script relies on, and what git does with a bundle that has no HEAD.
EitherClone == {{"feature"}, {}}
HeadlessClone == {{}, {"main"}}
=============================================================================
