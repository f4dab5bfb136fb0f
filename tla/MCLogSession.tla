---------------------------- MODULE MCLogSession ----------------------------
(* Journals for the runs of LogSession.                                    *)
EXTENDS LogSession, TLC

\* Two journals that can be taken for one another.
MCTwoAlike == 1 :> 2 @@ 2 :> 2

\* One journal, and one that is empty.
MCOneEmpty == 1 :> 2 @@ 2 :> 0

MCOneFile == 1 :> 2

=============================================================================
