------------------------------ MODULE MCClient ------------------------------
EXTENDS Client
CONSTANTS a, b, c, d
MCNodes == {a, b, c, d}
MCGroups == {{a, b, c}, {d}}
MCListed == [g \in MCGroups |-> IF g = {d} THEN <<d>> ELSE <<a, b, c>>]
MCProgram == {memcached_send_ascii("SET_OP"), text_incr_decr, ascii_get_by_key, ascii_exist, do_coll_create, do_coll_get}
MCQuietly == {x \in MCProgram : x.noreply}
MCModes == {<<FALSE, FALSE>>, <<FALSE, TRUE>>, <<TRUE, TRUE>>}
MCAllModes == BOOLEAN \X BOOLEAN
=============================================================================
