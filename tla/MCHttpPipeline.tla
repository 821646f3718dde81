---------------------------- MODULE MCHttpPipeline ----------------------------
(* Representative requests: every branch of on_read() is taken by one.      *)
EXTENDS HttpPipeline

Req(m, t, auth, blob, close, upgrade) ==
  [method |-> m, target |-> t, auth |-> auth, blob |-> blob,
   close |-> close, upgrade |-> upgrade]

PostCommand   == Req("post", "page", TRUE, FALSE, FALSE, FALSE)
LastCommand   == Req("post", "page", TRUE, FALSE, TRUE, FALSE)
GetBlob       == Req("get", "page", TRUE, TRUE, FALSE, FALSE)
GetPage       == Req("get", "page", TRUE, FALSE, FALSE, FALSE)
GuestRoot     == Req("get", "root", FALSE, FALSE, FALSE, FALSE)
GuestFavicon  == Req("get", "favicon", FALSE, FALSE, FALSE, FALSE)
GuestFileList == Req("get", "api", FALSE, FALSE, FALSE, FALSE)
GuestPost     == Req("post", "files", FALSE, FALSE, FALSE, FALSE)
GuestDelete   == Req("other", "files", FALSE, FALSE, FALSE, FALSE)
GuestPage     == Req("head", "page", FALSE, FALSE, TRUE, FALSE)
Upgrade       == Req("get", "page", TRUE, FALSE, FALSE, TRUE)

AllRequests == {PostCommand, LastCommand, GetBlob, GetPage, GuestRoot,
                GuestFavicon, GuestFileList, GuestPost, GuestDelete, GuestPage,
                Upgrade}
=============================================================================
