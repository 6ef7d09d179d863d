--------------------------- MODULE MCIndexerSync ---------------------------
EXTENDS IndexerSync

CONSTANTS left, right

MCSibling == {left, right}
=============================================================================
