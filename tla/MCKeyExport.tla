---------------------------- MODULE MCKeyExport ----------------------------
\* TLC instance of KeyExport: a shade, an extra, and two shades whose key one of the
\* tools exports and the other does not.
EXTENDS KeyExport

CONSTANTS shade, spare, blank, bad

Four == {[id |-> shade, extra |-> FALSE, key |-> "usable"],
         [id |-> spare, extra |-> TRUE,  key |-> "usable"],
         [id |-> blank, extra |-> FALSE, key |-> "empty"],
         [id |-> bad,   extra |-> FALSE, key |-> "undecodable"]}
=============================================================================
