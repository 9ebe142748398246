---------------------------- MODULE MCStandalone ----------------------------
(***************************************************************************)
(* The components that share no state with the rest, each checked on its     *)
(* own: a behaviour is one of a single component, the others stay as they     *)
(* began.  The state space is the sum of theirs.                              *)
(***************************************************************************)
EXTENDS Operations, ConfirmedPublisher, DlqDrain, RequestEdge, Paging,
        RetryTransaction, PasswordRotation, WarmUpServer, TLC

VARIABLE part

Parts == {"backup", "drill", "publisher", "drain", "edge", "paging", "retry",
          "rotation", "warmUp"}

(* A component that is not explored starts in one of its initial states. *)
MCInit ==
  /\ part \in Parts
  /\ BackupInit /\ DrillInit /\ PublisherInit /\ DrainInit /\ EdgeInit
  /\ PagingInit /\ RetryInit /\ RotationInit /\ WarmUpInit
  /\ part # "drill" => onDisk = "intact"
  /\ part # "publisher" => routed
  /\ part # "edge" => api.state
  /\ part # "paging" => list.of = "products" /\ list.limit = 1
  /\ part # "warmUp" => sent = CHOOSE s \in [Connections -> Sendings] : TRUE

Of(p, partVars) == IF part = p THEN TRUE ELSE UNCHANGED partVars
Only(p) ==
  /\ part = p /\ UNCHANGED part
  /\ Of("backup", backupVars) /\ Of("drill", drillVars)
  /\ Of("publisher", publisherVars) /\ Of("drain", drainVars)
  /\ Of("edge", edgeVars) /\ Of("paging", pagingVars)
  /\ Of("retry", retryVars) /\ Of("rotation", rotationVars) /\ Of("warmUp", warmUpVars)

MCNext ==
  \/ Only("backup") /\ BackupNext
  \/ Only("drill") /\ DrillNext
  \/ Only("publisher") /\ PublisherNext
  \/ Only("drain") /\ DrainNext
  \/ Only("edge") /\ EdgeNext
  \/ Only("paging") /\ PagingNext
  \/ Only("retry") /\ RetryNext
  \/ Only("rotation") /\ RotationNext
  \/ Only("warmUp") /\ WarmUpNext

MCSpec == MCInit /\ [][MCNext]_<<part, backupVars, drillVars, publisherVars, drainVars,
                               edgeVars, pagingVars, retryVars, rotationVars, warmUpVars>>

-----------------------------------------------------------------------------
(* Two messages with one event id, and one with another. *)
MCEventOf == 1 :> "a" @@ 2 :> "a" @@ 3 :> "b"

(* Session ids are interchangeable. *)
MCSymmetry == Permutations(Sids)

(* Only commands of request 1 are sent again, and then request 3 is one that   *)
(* meets the limiter and no session.                                           *)
MCResends ==
  /\ resent[2] = 0 /\ resent[3] = 0
  /\ resent[1] = 0 \/ (req[3].route \in {None, "products"} /\ req[3].sid = None)

(* One operation on a row, two on both rows in opposite orders. *)
MCPlan == "c1" :> <<"x">> @@ "c2" :> <<"x", "y">> @@ "c3" :> <<"y", "x">>

(* A header with a two-byte character and a pipelined second request, a       *)
(* header without a colon, headers that never end, and two short requests.     *)
MCSendings == {
  <<"GET /headers", "header", "char1", "char2", "CRLF1", "CRLF2", "GET /", "CRLF1", "CRLF2">>,
  <<"GET /", "noColon", "CRLF1", "CRLF2">>,
  <<"other", "header", "CRLF1">>,
  <<"other", "CRLF1", "CRLF2">>,
  <<"GET /", "CRLF1", "CRLF2">>}
=============================================================================
