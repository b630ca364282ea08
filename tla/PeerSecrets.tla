----------------------------- MODULE PeerSecrets -----------------------------
(***************************************************************************)
(* get_secret, set_secret and remove_secret of charm.py for one scope, and *)
(* what DataPeerData, CachedSecret and SecretCache of data_interfaces.py   *)
(* make of them.                                                           *)
(*                                                                         *)
(* An earlier revision of the charm may have left a value in the databag,  *)
(* in a secret with another label, or in one that is known by its URI in   *)
(* the databag.  All of it is read where it is, and moves on the first     *)
(* write to a secret with the new label.  A field is never taken out of a  *)
(* secret: a label stands in for its value.                                *)
(*                                                                         *)
(* A call is one step.  Simplifications:                                   *)
(*  - the caller is the unit, or the leader for the application: other     *)
(*    calls that write are refused;                                        *)
(*  - Juju has secrets; the cache of one hook agrees with them;            *)
(*  - the earlier revision kept a field in one place.                      *)
(***************************************************************************)
CONSTANTS
  Fields,   \* keys
  Renamed,  \* the keys that are another name in the secret: _translate_field_to_secret_key
  Values,
  None,     \* no value, and None as an argument
  Deleted,  \* SECRET_DELETED_LABEL
  Absent    \* no secret

VARIABLES
  databag,     \* databag[f]: the value of f in the databag
  labelled,    \* the content of the secret with the label of this revision
  legacy,      \* the content of the secret with the label of an earlier one
  unlabelled,  \* the content of the secret the databag has the URI of
  uri,         \* the databag has that URI
  expected     \* what the calls so far have written: for the properties

vars == <<databag, labelled, legacy, unlabelled, uri, expected>>

Content == [Fields -> Values \union {None, Deleted}]

\* The value of a field is told from its label and from none, and a secret from none.
Distinct == None \notin Values /\ Deleted \notin Values \union {None} /\ Absent \notin Content

TypeOK ==
  /\ databag \in [Fields -> Values \union {None}]
  /\ {labelled, legacy, unlabelled} \subseteq Content \union {Absent}
  /\ uri \in BOOLEAN /\ (uri => unlabelled # Absent)
  /\ expected \in [Fields -> Values \union {None}]

\* _generate_secret_label, or the legacy labels, or the URI.
Found ==
  IF labelled # Absent THEN labelled
  ELSE IF legacy # Absent THEN legacy
  ELSE IF uri THEN unlabelled ELSE Absent

\* _get_group_secret_contents: a label is no value.
Contents(content) == {f \in Fields : content[f] \notin {None, Deleted}}

\* current_secret_fields
Current == IF Found = Absent THEN {} ELSE Contents(Found)

\* DataPeerData.get_secret
InSecret(f) == IF f \in Current THEN Found[f] ELSE None

\* "Old translation in databag is to be taken".
GetSecret(f) == IF databag[f] # None THEN databag[f] ELSE InSecret(f)

Placed(f, v) == [g \in Fields |-> IF g = f THEN v ELSE None]

\* Where an earlier revision kept its values: all in one of its secrets, which is not empty, or
\* in the databag.
Init ==
  \E old \in [Fields -> Values \union {None}], place \in {"databag", "legacy", "uri"} :
    /\ place # "databag" => \E f \in Fields : old[f] # None
    /\ databag = IF place = "databag" THEN old ELSE [f \in Fields |-> None]
    /\ legacy = IF place = "legacy" THEN old ELSE Absent
    /\ unlabelled = IF place = "uri" THEN old ELSE Absent
    /\ uri = (place = "uri")
    /\ labelled = Absent
    /\ expected = old

\* CachedSecret.meta: a secret found by its URI is labelled with the new label.
Labels(content) == IF legacy = Absent /\ uri THEN content ELSE labelled

\* CachedSecret.set_content: no revision for the same content; otherwise what was found with
\* the legacy label is copied to a secret with the new one.
Written(content) == IF content = Found THEN Labels(content) ELSE content

\* Mutant: the secret with the legacy label is not copied.
UpdatedAlone(f, v) == IF labelled = Absent THEN Placed(f, v) ELSE [labelled EXCEPT ![f] = v]

\* _add_or_update_relation_secrets
Updated(f, v) ==
  IF Found = Absent THEN Placed(f, v) ELSE Written([Found EXCEPT ![f] = v])

\* Mutant: the old translation stays in the databag.
SetSecretBeside(f, v) ==
  /\ labelled' = Updated(f, v)
  /\ uri' = FALSE
  /\ expected' = [expected EXCEPT ![f] = v]
  /\ UNCHANGED <<databag, legacy, unlabelled>>

\* _delete_relation_data_without_secrets
WithoutField(f) == [databag EXCEPT ![f] = None]

\* _legacy_migration_remove_secret_from_databag, and of the URI.
Migrates(f) == databag' = WithoutField(f) /\ uri' = FALSE

SetSecret(f, v) ==
  /\ Migrates(f)
  /\ labelled' = Updated(f, v)
  /\ expected' = [expected EXCEPT ![f] = v]
  /\ UNCHANGED <<legacy, unlabelled>>

\* Mutant: the label goes to the databag as well.
RemoveSecretThere(f) ==
  /\ labelled' = IF f \in Current THEN Written([Found EXCEPT ![f] = Deleted]) ELSE labelled
  /\ databag' = IF databag[f] = None THEN databag ELSE [databag EXCEPT ![f] = Deleted]
  /\ expected' = [expected EXCEPT ![f] = None]
  /\ UNCHANGED <<legacy, unlabelled, uri>>

\* _delete_relation_data: a field that is in no secret is taken out of the databag, under its
\* name in the secret.
Deletes(f) ==
  IF f \in Current
  THEN labelled' = Written([Found EXCEPT ![f] = Deleted]) /\ UNCHANGED databag
  ELSE /\ databag' = IF f \in Renamed THEN databag ELSE WithoutField(f)
       /\ UNCHANGED labelled

RemoveSecret(f) ==
  /\ Deletes(f)
  /\ expected' = [expected EXCEPT ![f] = None]
  /\ UNCHANGED <<legacy, unlabelled, uri>>

\* The value of set_secret may be None.
SetOrRemove(f, v) == IF v = None THEN RemoveSecret(f) ELSE SetSecret(f, v)

Next == \E f \in Fields, v \in Values \union {None} : RemoveSecret(f) \/ SetOrRemove(f, v)

Spec == Init /\ [][Next]_vars

----------------------------------------------------------------------------
(* Properties *)

\* Whatever an earlier revision left where, a field reads as what was written last, or not
\* at all once it is removed, whichever other fields moved meanwhile.  remove_secret takes
\* no renamed field out of the databag (charm.py:797-806; set_secret does, 793-794).
ReadsBack ==
  \A f \in Fields :
    GetSecret(f) = expected[f] \/ (f \in Renamed /\ databag[f] # None /\ expected[f] = None)

\* What this revision writes is not in the databag, and what is in the databag is in no
\* secret as well: a field has one value (charm.py:793-795, data_interfaces.py:2731-2743).
OnePlace == \A f \in Current : databag[f] = None
=============================================================================
