-------------------------- MODULE MCArchiveFolders --------------------------
(* A small instance of ArchiveFolders: two messages, one of them in a       *)
(* folder two levels down, and names enough to rename, replace and nest.    *)
EXTENDS ArchiveFolders

CONSTANTS h1, h2, agent, cleaner

Interchangeable == Permutations(Handlers)

MCInbox == <<"INBOX">>
MCRoot == <<"mail-archive">>
MCSubfolders == {<<>>, <<"a">>, <<"b">>, <<"a", "c">>, <<"b", "c">>}
MCTargets == {<<"mail-archive", "b">>, <<"mail-archive", "a", "c">>}
MCInitialMail == MCInbox :> <<"m1">> @@ MCRoot :> <<>> @@ <<"mail-archive", "a">> :> <<>>
                 @@ <<"mail-archive", "a", "c">> :> <<"m2">>
MCProposals == {<<"mail-archive", "TO_DELETE", "b">>}
MCRule == "m1" :> <<"a">> @@ "m2" :> <<>>
=============================================================================
