------------------------------ MODULE MCFileIo ------------------------------
\* Two File objects and two native streams on one path.  Contents of no byte
\* up to three, a buffer of two bytes and limits below, at and above a length.
EXTENDS FileIo

CONSTANTS a, b

SomeTexts == {<<>>, <<a, b>>, <<b, a, a>>}
=============================================================================
