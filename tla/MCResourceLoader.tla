-------------------------- MODULE MCResourceLoader --------------------------
(***************************************************************************)
(* Small instances of ResourceLoader: two aliases of one HTTP image and a  *)
(* data: URL.                                                              *)
(***************************************************************************)
EXTENDS ResourceLoader

CONSTANTS t1, t2, t3, img, imgFrag, dataUrl, imgKey, dataKey

MCPendingKey == [u \in Urls |-> IF u = dataUrl THEN dataKey ELSE imgKey]
MCShareable == Urls \ {dataUrl}
MCUrlBytes == [u \in Urls |-> IF u = imgFrag THEN 2 ELSE 1]
MCKeyBytes == [k \in Keys |-> 1]

\* Every thread asks for one URL, and two of them for an alias or a data: URL too.
SharedAliased == {<<t1, img>>, <<t2, imgFrag>>, <<t2, img>>, <<t3, img>>, <<t3, dataUrl>>}
=============================================================================
