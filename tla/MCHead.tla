------------------------------- MODULE MCHead -------------------------------
(***************************************************************************)
(* Head on a small instance: two addresses, two keys besides the unset     *)
(* one, one day of the cycle, two seconds to hand out.                     *)
(***************************************************************************)
EXTENDS Head

MCKeys == 0 .. 2
MCDurations == {0, 1}
MCPhases == {"SUNDAY"}

\* Head only compares keys with each other, so which key a node has does not
\* matter, only which nodes have the same.  And no operation reads the frame
\* that the last one returned.
SameKey == {p \in Addr \X Addr :
  Exists(p[1]) /\ Exists(p[2]) /\ node_link[p[1]].id_key = node_link[p[2]].id_key}
UpToKeys ==
  <<[a \in Addr |-> IF Exists(a) THEN [node_link[a] EXCEPT !.id_key = 0]
                    ELSE NullNode],
    SameKey, head_status, active_watering_index, no_response_pairing_count,
    time_pool, nvs, panicked>>
=============================================================================
