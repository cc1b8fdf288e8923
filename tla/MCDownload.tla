----------------------------- MODULE MCDownload -----------------------------
EXTENDS Download

\* Four parts of a yEnc binary, which take two cmdlists, and mixed contents.
Yenc == <<{"yenc"}, {"yenc"}, {"yenc"}, {"yenc"}>>
YencText == <<{"yenc", "text"}, {"yenc"}, {"text"}>>
\* A picture in three parts; one whose end is broken; what is not all of one.
Uu == <<{"first", "text"}, {"middle"}, {"last"}>>
UuBroken == <<{"first"}, {"middle"}, {"middle"}>>
Middles == <<{"middle"}, {"middle"}>>
OneMiddle == <<{"middle"}>>
UuWhole == <<{"whole", "text"}>>

Several == {Yenc, YencText, Uu, UuBroken, Middles, OneMiddle, UuWhole}
=============================================================================
