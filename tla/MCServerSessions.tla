-------------------------- MODULE MCServerSessions --------------------------
(* Instances of ServerSessions for TLC. *)
EXTENDS ServerSessions

CONSTANTS film, news, dirNews  \* two streams, and the path "dir/news"

\* Each stream by its name, and one path whose last component is "news".
MCDescribeURL == {<<film, film>>, <<news, news>>, <<dirNews, news>>}

=============================================================================
