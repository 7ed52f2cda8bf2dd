--------------------------- MODULE MCFileUploader ---------------------------
(* FileUploader with two contents and the requests that can meet. *)
EXTENDS FileUploader, TLC

CONSTANTS c, d, u1, u2, u3

BothContents == {c, d}
RawOrGzip == {"raw", "gzip -1", "gzip -9"}
TwoUploads == {u1, u2}
ThreeUploads == {u1, u2, u3}

Post(content, ext, encoding, compression) ==
  [at |-> NoLocation, content |-> content, ext |-> ext, encoding |-> encoding,
   compression |-> compression, body |-> "raw"]

PostForm(content, ext, encoding, compression) ==
  [Post(content, ext, encoding, compression) EXCEPT !.body = "form"]

Location(hash, n, ext) == [hash |-> hash, n |-> n, ext |-> ext]

Replicate(location_, content, encoding, compression) ==
  [at |-> location_, content |-> content, ext |-> "", encoding |-> encoding,
   compression |-> compression, body |-> "raw"]

\* Plain text posted here, and replicated here, once with the wrong content.
PlainRequests ==
  {Post(c, ".txt", "", "raw"),
   Replicate(Location(c, 1, ".txt"), c, "", "raw"),
   Replicate(Location(c, 1, ".txt"), d, "", "raw")}

\* Text posted gzipped, two ways, and not; a .gz file, as it is and encoded
\* once more; the same bytes as the encoding of an octet stream, posted, or
\* replicated from the .gz file of another node; text with an encoding that Verm
\* does not know, and text from a form.
GzipRequests ==
  {Post(c, ".txt", "gzip", "gzip -1"), Post(c, ".txt", "gzip", "gzip -9"),
   Post(c, ".txt", "", "raw"),
   Post(c, ".gz", "", "gzip -1"), Post(c, ".gz", "gzip", "gzip -1"),
   Post(c, "", "gzip", "gzip -1"),
   Replicate(Location(c, 1, ""), c, "gzip", "gzip -1"),
   Post(c, ".txt", "unsupported", "raw"), PostForm(c, ".txt", "", "raw")}

\* Text as it is and gzipped.
TextRequests == {Post(c, ".txt", "", "raw"), Post(c, ".txt", "gzip", "gzip -1")}

\* What a request may be for its tempfile to stay behind.
SetUpRequests ==
  {PostForm(c, ".txt", "", "raw"), Post(c, ".txt", "gzip", "gzip -1"),
   Post(c, ".gz", "", "gzip -1"), Post(c, ".txt", "unsupported", "raw")}

Name(hash, n, ext, gz) == [hash |-> hash, n |-> n, ext |-> ext, gz |-> gz]

Empty == [f \in {} |-> Corrupt]
Holding(f, bytes) == f :> bytes
Plain(content) == [content |-> content, compression |-> "raw"]

\* An empty directory, or one with the text: whole, rotten or out of reach.
PlainDisks ==
  {Empty, Holding(Name(c, 1, ".txt", FALSE), Plain(c)),
   Holding(Name(c, 1, ".txt", FALSE), Corrupt),
   Holding(Name(c, 1, ".txt", FALSE), Corrupt)
     @@ Holding(Name(c, 2, ".txt", FALSE), Corrupt),
   Holding(Name(c, 1, ".txt", FALSE), Unreadable)}

GzipDisks ==
  {Empty, Holding(Name(c, 1, ".txt", TRUE), Corrupt),
   Holding(Name(c, 1, ".txt", TRUE), Corrupt)
     @@ Holding(Name(c, 2, ".txt", TRUE), Corrupt),
   Holding(Name(c, 1, "", TRUE), Corrupt)}

EmptyDisk == {Empty}

UploadSymmetry == Permutations(ThreeUploads)
=============================================================================
