SPECIFICATION FairDynamicSpec
CONSTANTS
  a = a
  b = b
  in1 = in1
  in2 = in2
  out1 = out1
  out2 = out2
  din = din
  dout = dout
  ParentStreamInputs = {in1, in2}
  ParentStreamOutputs = {out1, out2}
  ParentDataInputs = {din}
  ParentDataOutputs = {dout}
  Graphs <- Inner
  PlanOnly = {}
  MaxItems = 2
  MayThrow = TRUE
CHECK_DEADLOCK FALSE
INVARIANTS OuterDelivery DynamicDataAvailable DynamicNeverThrows
PROPERTIES ImplementsDataflow DynamicTerminates
