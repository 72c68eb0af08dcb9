------------------------------ MODULE MCSdCard ------------------------------
(***************************************************************************)
(* Paths for SdCard: the mount point, a refused path, a managed directory  *)
(* with and without a trailing slash, RINEX files, and a user's directory. *)
(***************************************************************************)
EXTENDS SdCard

MCStamps == <<"t1", "t2", "t3">>
MCLists == [ui |-> {{<<"rawdata">>}, {<<"rawdata", "t1">>, <<"x">>}},
            web |-> {{<<>>, <<"..">>, <<"x">>}, {<<"rawdata">>}, {<<"rawdata", "">>}}]
MCEntries == {<<"rawdata">>, <<"rawdata", "t1">>}
MCTargets == {<<"y">>}
MCStuck == {<<"rawdata", "t3">>}
=============================================================================
