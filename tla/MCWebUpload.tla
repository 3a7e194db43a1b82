----------------------------- MODULE MCWebUpload -----------------------------
(* WebUpload for TLC: a few photos and ways to fill in the form.  There    *)
(* are two keys for the four pairs of these, which bounds the pairs that a *)
(* behaviour can read: one photo with its fields changed, or both photos.  *)
(* A third pair is only ever explored as a photo that cannot be read.      *)
EXTENDS WebUpload
=============================================================================
