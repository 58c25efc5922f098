---------------------------- MODULE MCAnchoring -----------------------------
EXTENDS Anchoring, TLC

Do(kind, store) == [kind |-> kind, store |-> store]

(* The runtime anchors twice into one store while the operator anchors the    *)
(* latest checkpoint there; the runtime anchors and archives while the        *)
(* operator takes a checkpoint by hand and archives.                          *)
MCTodos ==
    UNION {{("runtime" :> <<Do("anchor", s), Do("anchor", s)>> @@ "operator" :> <<Do("latest", s)>>),
            ("runtime" :> <<Do("anchor", s), Do("archive", "worm_object")>>
              @@ "operator" :> <<Do("checkpoint", "none"), Do("archive", "worm_object")>>)}
           : s \in {"local_file", "worm_object"}}
=============================================================================
