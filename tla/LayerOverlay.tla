---------------------------- MODULE LayerOverlay ----------------------------
(***************************************************************************)
(* sources/container/content.go: which entries of an image's layers are    *)
(* hidden by a layer above them. Layers are read from the last to the      *)
(* first, so an entry is looked up before the layers below it are known,   *)
(* and what hides it is told from the changes collected so far.            *)
(*                                                                         *)
(* A path is a sequence of names. An entry is a "dir" or a "file" (all     *)
(* that is no directory) at its path, a "whiteout" of its path, or the     *)
(* "opaque" marker of the directory at its path. The first layer is        *)
(* layers[1]; one that fails on the way is broken.                         *)
(***************************************************************************)
EXTENDS Naturals, SequencesExt

Change(state, layer) == [state |-> state, layer |-> layer]
Set(changes, path, change) == (path :> change) @@ changes

NewOverlay == [exact |-> <<>>, trees |-> <<>>, opaque |-> <<>>]

(* "Whiteouts remove lower occurrences before same-layer additions."       *)
Deletes(o, path) == path \in DOMAIN o.trees /\ o.trees[path].state = "deleted"

(* Mutant: a file that comes after its whiteout turns it into an overwrite *)
RecordLast(o, e, k) ==
  CASE e.kind = "opaque"   -> [o EXCEPT !.opaque = Set(@, e.path, Change("deleted", k))]
    [] e.kind = "whiteout" -> [o EXCEPT !.trees = Set(@, e.path, Change("deleted", k))]
    [] e.kind = "dir"      -> [o EXCEPT !.exact = Set(@, e.path, Change("overwritten", k))]
    [] e.kind = "file"     -> [o EXCEPT !.trees = Set(@, e.path, Change("overwritten", k))]

(* What an entry of layer k does to what is below.                         *)
Record(o, e, k) ==
  CASE e.kind = "opaque"   -> [o EXCEPT !.opaque = Set(@, e.path, Change("deleted", k))]
    [] e.kind = "whiteout" -> [o EXCEPT !.trees = Set(@, e.path, Change("deleted", k))]
    [] e.kind = "dir"      -> IF e.path = <<>> THEN o
                              ELSE [o EXCEPT !.exact = Set(@, e.path, Change("overwritten", k))]
    [] e.kind = "file"     -> IF Deletes(o, e.path) THEN o
                              ELSE [o EXCEPT !.trees = Set(@, e.path, Change("overwritten", k))]

Pending(layer, k) == FoldLeft(LAMBDA o, e : Record(o, e, k), NewOverlay, layer.entries)

(* Mutant: the change of the layer that was read first is kept.            *)
MergeOldest(o, n) ==
  [exact |-> o.exact @@ n.exact, trees |-> o.trees @@ n.trees, opaque |-> o.opaque @@ n.opaque]

(* "Walking backwards, each newly visited change is closer to the          *)
(* remaining older occurrences."                                           *)
Merge(o, n) ==
  [exact |-> n.exact @@ o.exact, trees |-> n.trees @@ o.trees, opaque |-> n.opaque @@ o.opaque]

(* What is known before layer k is read.                                   *)
Overlay(layers) ==
  LET known[k \in 1 .. Len(layers)] ==
        IF k = Len(layers) THEN NewOverlay
        ELSE IF layers[k + 1].broken THEN known[k + 1]
        ELSE Merge(known[k + 1], Pending(layers[k + 1], k + 1))
  IN  known

(* A directory and all that is in it.                                      *)
Under(dir, path) == IsPrefix(dir, path)

(* Mutant: an opaque directory is hidden with its contents.                *)
HidingItself(o, path) ==
  {o.exact[p] : p \in {path} \cap DOMAIN o.exact}
  \cup {o.trees[p]  : p \in {q \in DOMAIN o.trees : Under(q, path)}}
  \cup {o.opaque[p] : p \in {q \in DOMAIN o.opaque : Under(q, path)}}

(* lookup: the changes of the path and of the directories it is in; the    *)
(* one of the lowest layer counts, a deletion before an overwrite.         *)
Hiding(o, path) ==
  {o.exact[p] : p \in {path} \cap DOMAIN o.exact}
  \cup {o.trees[p]  : p \in {q \in DOMAIN o.trees : Under(q, path)}}
  \cup {o.opaque[p] : p \in {q \in DOMAIN o.opaque : Under(q, path) /\ q # path}}

Lookup(o, path) ==
  LET changes == Hiding(o, path)
      first   == {c \in changes : \A d \in changes : c.layer <= d.layer}
  IN  IF changes = {} THEN Change("visible", 0)
      ELSE IF \E c \in first : c.state = "deleted" THEN CHOOSE c \in first : c.state = "deleted"
      ELSE CHOOSE c \in first : TRUE

(* What is reported of an entry of layer k. After a layer that failed, and *)
(* for Windows, it is not known.                                           *)
Status(layers, k, path, windows) ==
  IF windows \/ \E m \in k + 1 .. Len(layers) : layers[m].broken THEN Change("unknown", 0)
  ELSE Lookup(Overlay(layers)[k], path)

-----------------------------------------------------------------------------
(* The reference: layers are applied one after the other, from the first.  *)
(* A whiteout removes what lower layers have at its path and below, an     *)
(* opaque marker what they have below its directory, and an entry replaces *)
(* what is at its path, with everything below if it is no directory.       *)
Adds(layer, path) ==
  \E i \in DOMAIN layer.entries :
    LET e == layer.entries[i] IN
      \/ e.kind \in {"dir", "file"} /\ e.path = path
      \/ e.kind = "file" /\ Under(e.path, path)

Removes(layer, path) ==
  \E i \in DOMAIN layer.entries :
    LET e == layer.entries[i] IN
      \/ e.kind = "whiteout" /\ Under(e.path, path)
      \/ e.kind = "opaque" /\ Under(e.path, path) /\ e.path # path

Fate(layers, k, path) ==
  LET hiders == {m \in k + 1 .. Len(layers) : Adds(layers[m], path) \/ Removes(layers[m], path)}
      first  == CHOOSE m \in hiders : \A n \in hiders : m <= n
  IN  IF hiders = {} THEN Change("visible", 0)
      ELSE Change(IF Removes(layers[first], path) THEN "deleted" ELSE "overwritten", first)

(* Each file and directory of an image is told to be visible, or hidden by *)
(* the layer that first removed or replaced it in the file system that the *)
(* layers build, however many later layers bring it back and remove it.    *)
FatesRight(layers) ==
  \A k \in DOMAIN layers : \A i \in DOMAIN layers[k].entries :
    LET path == layers[k].entries[i].path IN
    layers[k].entries[i].kind \in {"dir", "file"} /\ path # <<>> =>
      LET status == Status(layers, k, path, FALSE) IN
      IF \E m \in k + 1 .. Len(layers) : layers[m].broken THEN status.state = "unknown"
      ELSE status = Fate(layers, k, path)
=============================================================================
