------------------------- MODULE ContainerResources -------------------------
(***************************************************************************)
(* sources/container: what a session reads and yields. Any failure below   *)
(* an image, a manifest, a layer or a file is yielded and the session goes *)
(* on with the next of its kind; only a refusal or a done context ends it. *)
(* The overlay (which paths are hidden) is in LayerOverlay. An image whose *)
(* config cannot be read is taken to be of its platform all the same.      *)
(***************************************************************************)
EXTENDS SourceScript

Files == INSTANCE FileResources

Options(t) == Files!Strict(t.maxArchiveDepth)

(* metadata: the JSON as it is and, where it has escapes, decoded.         *)
Metadata(pieces) == ForEach(pieces, Emit)

(* A file of a layer: what is left out is out of the contents, but for a   *)
(* file over the limit, which is reported.                                 *)
LayerFile(file, large, t) ==
  LET script == Files!FileFragments(file, 0, Options(t))
  IN  IF large THEN Reported(Fail \o script) ELSE script

(* layer: an artifact, or the headers and files of a tar stream; the rest  *)
(* of the blob is read to check its digests.                               *)
Artifact(l, t) ==
  IF l.large THEN Fail \o Files!FileFragments(l.file, 0, Options(t))
  ELSE Files!FileFragments(l.file, 0, Options(t)) \o Fetch

Layer(l, t) ==
  Fetch \o When(l.encrypted, Fail) \o
  IF l.kind = "artifact" THEN Artifact(l, t)
  ELSE ForEach(l.entries, LAMBDA e :
         Fetch \o Metadata(e.header) \o When(e.regular /\ ~e.skip, LayerFile(e.file, e.large, t)))
       \o Fetch

(* image: config and history, then the layers from the last to the first.  *)
(* Mutant: the loop over the layers only logs the failure of one.          *)
ImageQuiet(img, t) ==
  Metadata(img.config) \o Metadata(img.history) \o
  ForEach(Reverse(img.layers), LAMBDA l : Skipped(Layer(l, t)))

Image(img, t) ==
  Metadata(img.config) \o Metadata(img.history) \o
  ForEach(Reverse(img.layers), LAMBDA l : Reported(Layer(l, t)))

(* walk: an index leads to the manifests of the wanted platforms, some of  *)
(* them indexes. Without a filter, and for "unknown", every one is wanted. *)
(* A config that cannot be read does not keep the layers from being read.  *)
Matches(platform, t) == t.platforms = {} \/ platform \in {"unknown"} \cup t.platforms

Manifest(img, t) ==
  Reported(Fetch) \o
  When(Matches(img.platform, t),
    Metadata(img.manifest) \o When(img.miscounted, Reported(Fail)) \o Image(img, t))

RECURSIVE Walk(_, _, _)
Walk(node, depth, t) ==
  IF depth > t.maxIndexDepth THEN Fail
  ELSE IF node.kind = "image" THEN Manifest(node, t)
  ELSE Metadata(node.index) \o
       ForEach(node.children, LAMBDA child :
         When(Matches(child.platform, t), Reported(Fetch \o Walk(child.node, depth + 1, t))))

(* selectedPlatforms has grown.                                            *)
RECURSIVE Selects(_, _)
Selects(node, t) ==
  IF node.kind = "image" THEN node.platform # "unknown" /\ Matches(node.platform, t)
  ELSE \E k \in DOMAIN node.children :
         Matches(node.children[k].platform, t) /\ Selects(node.children[k].node, t)

-----------------------------------------------------------------------------
(* A registry resolves the reference; an archive is unpacked and is then a *)
(* layout or what docker save writes; a daemon's CLI writes one and may    *)
(* still fail at its end.                                                  *)
Registry(x, t) == Fetch \o Walk(x.node, 0, t)
Layout(x, t) == Fetch \o Fetch \o Walk(x.node, 0, t)

DockerArchive(x, t) ==
  Fetch \o
  IF x.images = <<>> THEN Fail
  ELSE Metadata(x.manifest) \o
       ForEach(x.images, LAMBDA img :
         Reported(Reported(Fetch) \o
           When(Matches(img.platform, t), When(img.miscounted, Reported(Fail)) \o Image(img, t))))
       \o When(\A k \in DOMAIN x.images : ~Matches(x.images[k].platform, t), Fail)

Unpacked(x, t) == IF x.format = "layout" THEN Layout(x, t) ELSE DockerArchive(x, t)
Archive(x, t) == Fetch \o Fetch \o Unpacked(x, t)
Daemon(x, t)  == Fetch \o Fetch \o Unpacked(x, t) \o Fetch

Images(x) == IF x.format = "docker" THEN x.images ELSE <<x.node>>

(* visit: the failure of a target is yielded, and the next one follows.    *)
Visit(x, t) ==
  Reported(
    CASE x.from = "registry" -> Registry(x, t)
      [] x.from = "daemon"   -> Daemon(x, t)
      [] x.from = "archive"  -> Archive(x, t)
      [] x.from = "layout"   -> Layout(x, t))
  \o When(t.platforms # {} /\ ~\E k \in DOMAIN Images(x) : Selects(Images(x)[k], t),
          Reported(Fail))

Plan(t) ==
  [OneScript(ForEach(t.images, LAMBDA x : Visit(x, t))) EXCEPT !.accepted = t.images # <<>>]
=============================================================================
