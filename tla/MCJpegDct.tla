------------------------------- MODULE MCJpegDct --------------------------------
EXTENDS JpegDct
AllSizes == {<<n, n>> : n \in 1 .. 16} \cup {<<2 * n, n>> : n \in 1 .. 8} \cup {<<n, 2 * n>> : n \in 1 .. 8}
TestBlocks ==
  {{<<0, 0, 5>>, <<v, u, 3>>, <<(v + 3) % 8, (u + 4) % 8, -4>>} : v \in 0 .. 7, u \in {1, 2, 3, 5}}
  \cup {{<<0, 0, -20>>}, {<<0, 0, 30>>, <<1, 2, 20>>, <<0, 1, 20>>}, {<<0, 0, -50>>, <<2, 0, 30>>}}
=================================================================================
