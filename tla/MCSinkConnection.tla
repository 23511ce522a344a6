--------------------------- MODULE MCSinkConnection ---------------------------
EXTENDS SinkConnection

Load(rs, n) == [requests |-> rs, unrequested |-> n]

\* One dummy beside unrequested messages, several dummies without them, and
\* two requests the destination answers.
MCWorkloads ==
  {Load(<<"real", "noreply">>, 1), Load(<<"noreply", "noreply", "real">>, 0),
   Load(<<"real", "real">>, 0)}

\* Two dummies and an unrequested message in the same batch.
DummyWorkloads == {Load(<<"noreply", "noreply", "real">>, 1)}

\* A destination that closes after some of its answers.
CloseWorkloads == {Load(<<"real", "real">>, 0)}
ClusterMode == {"cluster"}

MCModes == {"single", "cluster"}
=============================================================================
