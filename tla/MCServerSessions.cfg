\* Two clients and two heap slots: a session that was unlisted and is still used,
\* and the one that takes its place (or a second stream).
CONSTANTS
  Client = {c1, c2}
  Object = {o1, o2}
  film = film
  news = news
  dirNews = dirNews
  Name = {film, news, dirNews}
  DescribeURL <- MCDescribeURL
  None = None
  HasDescribe = TRUE
  HasSetup = TRUE
  MaxRefs = 2
SPECIFICATION Spec
INVARIANTS SessionInv ClientInv
PROPERTIES VanishedPeerReclaimed
